---- MODULE Spec2Model ----
(***************************************************************************)
(* Inkwell: a Markdown viewer/editor built on a main process (src/main.js) *)
(* and a renderer (src/renderer/renderer.js) that talk over IPC.           *)
(*                                                                         *)
(* Specification Spec models the document reconciliation and view-mode     *)
(* machinery: the file on disk, the file watcher and its debounce timer,   *)
(* the open / save / reload handlers of the main process, the IPC traffic  *)
(* in both directions, and the renderer's document, view mode, editable    *)
(* buffer, timers and conflict banner.                                     *)
(***************************************************************************)
EXTENDS Integers, Sequences, FiniteSets, TLC

\* ------------------------------------------------------------------------
\* Bounds of the model
\* ------------------------------------------------------------------------
\* user gestures (open, drop, edit, toggle, save, close, banner click) in a run
MaxUser == 4
\* changes made to the files by other programs in a run
MaxExternal == 1
\* messages waiting in one direction of the IPC channel
MaxQueue == 2
\* concurrent calls of one kind awaiting the file system
MaxInFlight == 1
\* reloadCurrentFile calls suspended in fs.readFile in a run of SpecWatching
MaxReads == 2
\* user gestures in a run of SpecWatching
MaxOpens == 2
\* changes made to the files by other programs in a run of SpecWatching
MaxChanges == 3
\* user gestures in a run of SpecSourceEditing
MaxUserDeep == 5
\* diagram render requests in a run
MaxRequests == 2
\* renderDiagram calls awaiting a result for one request
MaxCalls == 2
\* initialisation scripts running at once
MaxInits == 2
\* diagram blocks of a rendered document
MaxDiagrams == 2
\* user gestures in a run of SpecDiagrams
MaxDiagramGestures == 3
\* search gestures (open or close the bar, type a query) in a run
MaxSearchOps == 3
\* paragraphs of the searched document
MaxParas == 2
\* text nodes processChunk handles per animation frame (100 in the program)
CHUNK_SIZE == 1
\* length, in lexical units, of a link target / of a text given to the compiler
MaxHrefLen == 3
MaxTextLen == 2
MaxHtmlLen == 4
\* length, in lexical units, of an attribute value of a diagram
MaxValueLen == 3
\* levels of elements below the root of a diagram
MaxDepth == 2

\* ------------------------------------------------------------------------
\* Values
\* ------------------------------------------------------------------------
Null == "null"
NoFile == "ENOENT"
NoEditor == "no-editor"
NoPane == "no-pane"

\* Regular files that can exist on disk, and one directory whose name has an
\* allowed extension.
Files == {"/a.md", "/b.md"}
DirPath == "/d.md"
\* Paths handed to openFile / open-dropped-file by the user.
OpenInputs == {"/a.md", "/x/../b.md", DirPath}
\* Texts a file or the editable buffer can hold.
Contents == {"a", "b"}

\* path.resolve on the paths of the model: normalises "x/.." segments.
PathResolve(p) == IF p = "/x/../b.md" THEN "/b.md" ELSE p

\* isAllowedFile: the extension is .md or .markdown.
ALLOWED_EXTENSIONS == {".md", ".markdown"}
ExtName(p) == IF p \in {"/a.md", "/b.md", "/x/../b.md", "/d.md"} THEN ".md" ELSE ""
isAllowedFile(p) == ExtName(p) \in ALLOWED_EXTENSIONS

\* parseMarkdown on plain one-paragraph texts: marked wraps a paragraph in
\* <p>..</p> and compiles the empty text to the empty output.
parseMarkdown(t) == IF t = "" THEN "" ELSE "<p>" \o t \o "</p>"

\* IPC message: every message has the same fields; unused ones are blank.
\*   t  channel          p  file path        c  raw text     h  html
\*   k  continuation of the renderer's awaiting function
\*   p2 pending path carried by save-before-open     ok success flag
\* (history carried by the messages of an open: k the route it took, p2 =
\* "dirty" when it was requested over unsaved edits; by open-dropped-file:
\* ok = the renderer's dirty flag at the drop)
Msg(t, p, c, h, k, p2, ok) == [t |-> t, p |-> p, c |-> c, h |-> h, k |-> k, p2 |-> p2, ok |-> ok]

VARIABLES
  \* ---- environment -----------------------------------------------------
  disk,            \* [Files -> Contents \cup {NoFile}]
  \* ---- main process (src/main.js) --------------------------------------
  mainWindow,      \* TRUE while the window exists
  mCurrentFilePath,\* currentFilePath
  mIsDirty,        \* isDirty (mirror of the renderer's flag)
  fileWatcher,     \* path watched by chokidar, or Null
  debounceTimer,   \* TRUE while the 300 ms reload timer is pending
  reads,           \* reloadCurrentFile calls awaiting fs.readFile
  opens,           \* openFile / open-dropped-file calls awaiting stat, readFile
  writes,          \* save-file calls awaiting fs.writeFile
  \* ---- IPC -------------------------------------------------------------
  m2r,             \* main -> renderer, in order
  r2m,             \* renderer -> main, in order
  \* ---- renderer (src/renderer/renderer.js) -----------------------------
  currentHtml,
  currentRaw,
  currentFilePath,
  viewMode,
  isDirty,
  editor,          \* value of #source-editor, or NoEditor
  shown,           \* html in the rendered pane / split preview, or NoPane
  autoSaveTimer,   \* TRUE while the autosave timer is pending
  previewDebounce, \* TRUE while the live split editor's preview timer is pending
  stalePreviews,   \* buffer texts of discarded split editors whose timer is pending
  awaiting,        \* functions suspended in `await window.inkwell.parseMarkdown(..)`
  pendingExternalHtml,
  pendingExternalRaw,
  conflictBanners, \* number of #conflict-banner elements in the document
  bannerHidden,    \* the banner carries class "hidden"
  \* ---- history ---------------------------------------------------------
  persisted,       \* text last written to / read from the renderer's open file
  lastStep,        \* what the last step did (read by the properties)
  budget           \* remaining user gestures and external changes

mainVars == <<mainWindow, mCurrentFilePath, mIsDirty, fileWatcher, debounceTimer, reads, opens, writes>>
docVars == <<currentHtml, currentRaw, currentFilePath, viewMode, isDirty>>
viewVars == <<editor, shown, previewDebounce, stalePreviews, awaiting>>
conflictVars == <<pendingExternalHtml, pendingExternalRaw, conflictBanners, bannerHidden>>
rendererVars == <<docVars, viewVars, autoSaveTimer, conflictVars>>
docState == <<disk, mainVars, m2r, r2m, rendererVars, persisted, lastStep, budget>>

\* ------------------------------------------------------------------------
\* Diagram rendering in the main process (src/main.js, renderMermaid)
\* ------------------------------------------------------------------------
VARIABLES
  mermaidWindow,          \* TRUE while the hidden BrowserWindow exists
  mermaidReady,
  mermaidPendingRequests, \* Map requestId -> code
  mermaidRequestId,
  mermaidLoading,         \* the window's page load has not finished
  mermaidInits,           \* initialisation scripts running in a window
  mermaidTimers,          \* request ids whose 10 s timer is pending
  mermaidCalls,           \* requestId -> renderDiagram calls awaiting a result
  mermaidPromise,         \* requestId -> state of the promise renderMermaid returned
  mermaidCode,            \* (history) requestId -> code of the request
  mermaidLate,            \* (history) requests answered after they were settled
  mermaidDispatched       \* (history) request ids in the order renderDiagram was called

mermaidVars == <<mermaidWindow, mermaidReady, mermaidPendingRequests, mermaidRequestId,
                 mermaidLoading, mermaidInits, mermaidTimers, mermaidCalls, mermaidPromise,
                 mermaidCode, mermaidLate, mermaidDispatched>>

\* ------------------------------------------------------------------------
\* Find in document (src/renderer/renderer.js, performSearch)
\* ------------------------------------------------------------------------
VARIABLES
  contentDom,          \* .markdown-body: per paragraph its child nodes
  searchMatches,       \* the mark elements found, in the order they were pushed
  currentMatchIndex,
  currentMarks,        \* the mark elements whose class list holds 'current'
  searchCount,         \* searchCount.textContent
  searchInputValue,    \* searchInput.value
  searchBarHidden,
  searchDebounceTimer, \* <<query>> while the 250 ms timer is pending, else <<>>
  searchIdle,          \* queries of pending requestIdleCallback(performSearch)
  rafQueue,            \* scans whose processChunk waits for an animation frame
  searchSeq,           \* number of scans started (names the scans)
  searchQuery,         \* (history) query of the last search started; <<>> once cleared
  searchOriginal,      \* (history) the text content before any search
  searchBudget         \* remaining search gestures

searchVars == <<contentDom, searchMatches, currentMatchIndex, currentMarks, searchCount,
                searchInputValue, searchBarHidden,
                searchDebounceTimer, searchIdle, rafQueue, searchSeq, searchQuery,
                searchOriginal, searchBudget>>

\* ------------------------------------------------------------------------
\* The compiler (src/main.js, parseMarkdown) applied to one source construct
\* ------------------------------------------------------------------------
VARIABLES
  compileInput,    \* the construct marked's lexer found in the source
  compileOutput,   \* the html parseMarkdown returned for it
  compiled         \* parseMarkdown has returned

compileVars == <<compileInput, compileOutput, compiled>>

\* ------------------------------------------------------------------------
\* sanitizeSvg (src/renderer/renderer.js) applied to one diagram
\* ------------------------------------------------------------------------
VARIABLES
  svgInput,        \* what DOMParser made of svgString
  svgOutput,       \* the string sanitizeSvg returned
  svgDone          \* sanitizeSvg has returned

svgVars == <<svgInput, svgOutput, svgDone>>

\* ------------------------------------------------------------------------
\* The chokidar watchers and reload timeouts of the main process
\* (src/main.js). fileWatcher and debounceTimer above are the two module
\* variables; these are the objects they may refer to.
\* ------------------------------------------------------------------------
VARIABLES
  openWatchers,    \* paths of the chokidar watchers that are not closed
  reloadTimeouts   \* pending setTimeout(() => reloadCurrentFile(), 300)

watchVars == <<openWatchers, reloadTimeouts>>

\* ------------------------------------------------------------------------
\* The diagrams of the rendered document (src/renderer/renderer.js,
\* renderMermaidInContainer)
\* ------------------------------------------------------------------------
VARIABLES
  diagramEls,      \* per .mermaid-container: its source and what .mermaid holds
  diagramLoop      \* the for...of loop: the container it is at, and whether it awaits

diagramVars == <<diagramEls, diagramLoop>>

\* ------------------------------------------------------------------------
\* The two panes of the split view and their scroll synchronisation
\* (src/renderer/renderer.js, setupSyncScroll)
\* ------------------------------------------------------------------------
VARIABLES
  syncScrollEnabled,     \* the preference
  sourcePane,            \* the textarea: scrollTop, scrollHeight - clientHeight
  previewPane,           \* the preview: scrollTop, scrollHeight - clientHeight
  isSyncingFromSource,   \* closure flags of setupSyncScroll
  isSyncingFromPreview,
  scrollEvents,          \* panes with a scroll event waiting to be dispatched
  echoes,                \* of those, the ones only a handler's assignment moved
  animationFrames        \* requestAnimationFrame callbacks waiting to run

scrollVars == <<syncScrollEnabled, sourcePane, previewPane, isSyncingFromSource,
                isSyncingFromPreview, scrollEvents, echoes, animationFrames>>

\* State outside the document model.
auxRest == <<mermaidVars, searchVars, compileVars, svgVars, diagramVars, scrollVars>>
auxVars == <<auxRest, watchVars>>
vars == <<docState, auxVars>>
mermaidRest == <<docState, searchVars, compileVars, svgVars, watchVars, diagramVars, scrollVars>>
searchRest == <<docState, mermaidVars, compileVars, svgVars, watchVars, diagramVars, scrollVars>>
compileRest == <<docState, mermaidVars, searchVars, svgVars, watchVars, diagramVars, scrollVars>>
svgRest == <<docState, mermaidVars, searchVars, compileVars, watchVars, diagramVars, scrollVars>>
diagramRest == <<docState, mermaidVars, searchVars, compileVars, svgVars, watchVars, scrollVars>>
scrollRest == <<docState, mermaidVars, searchVars, compileVars, svgVars, watchVars, diagramVars>>

Element(tag, attrs, children) == [tag |-> tag, attrs |-> attrs, children |-> children]

\* Before sanitizeSvg is called on a string that parses to `doc`.
SvgInit(doc) ==
  /\ svgInput = doc
  /\ svgOutput = <<>>
  /\ svgDone = FALSE

\* Before parseMarkdown is called on a source holding `token`.
CompileInit(token) ==
  /\ compileInput = token
  /\ compileOutput = <<>>
  /\ compiled = FALSE

\* A text node holding text t; a paragraph whose only child is that node.
\* (gen tells the text nodes that were the only child at different times apart.)
TextNode(t) == [mark |-> FALSE, text |-> t, id |-> <<>>]
Paragraph(t) == [gen |-> 0, frags |-> <<TextNode(t)>>]

\* The rendered document and the search bar before any search; doc is the
\* sequence of paragraph texts.
SearchInit(doc) ==
  /\ contentDom = [p \in DOMAIN doc |-> Paragraph(doc[p])]
  /\ searchMatches = <<>>
  /\ currentMatchIndex = -1
  /\ currentMarks = {}
  /\ searchCount = <<>>
  /\ searchInputValue = <<>>
  /\ searchBarHidden = TRUE
  /\ searchDebounceTimer = <<>>
  /\ searchIdle = <<>>
  /\ rafQueue = <<>>
  /\ searchSeq = 0
  /\ searchQuery = <<>>
  /\ searchOriginal = doc
  /\ searchBudget = IF doc = <<>> THEN 0 ELSE MaxSearchOps

\* Request ids of the model and the diagram sources requested.
RequestIds == 0..(MaxRequests - 1)
Codes == {"g1", "g2"}

\* A .mermaid-container as the compiler emits it: the source of the diagram
\* and an empty .mermaid element.
DiagramContainer(code) == [source |-> code, mermaid |-> <<>>]

\* The containers of the rendered document before renderMermaidInContainer
\* runs; codes is the sequence of diagram sources.
DiagramInit(codes) ==
  /\ diagramEls = [i \in DOMAIN codes |-> DiagramContainer(codes[i])]
  /\ diagramLoop = [at |-> 0, awaiting |-> FALSE]

\* Module-level initial values (main.js 13-16); no request was made yet.
MermaidMainInit ==
  /\ mermaidWindow = FALSE
  /\ mermaidReady = FALSE
  /\ mermaidPendingRequests = [i \in {} |-> ""]
  /\ mermaidRequestId = 0
  /\ mermaidLoading = FALSE
  /\ mermaidInits = 0
  /\ mermaidTimers = {}
  /\ mermaidCalls = [i \in RequestIds |-> 0]
  /\ mermaidPromise = [i \in RequestIds |-> "none"]
  /\ mermaidCode = [i \in RequestIds |-> ""]
  /\ mermaidLate = {}
  /\ mermaidDispatched = <<>>

\* No request was made yet and the document has no diagram.
MermaidInit == MermaidMainInit /\ DiagramInit(<<>>)


\* A pane at the top of a content that fits its viewport.
Pane(top, scrollable) == [scrollTop |-> top, scrollable |-> scrollable]

\* Sync scrolling is on by default (src/main.js, store defaults); nothing was
\* scrolled yet.
ScrollInit ==
  /\ syncScrollEnabled = TRUE
  /\ sourcePane = Pane(0, 0)
  /\ previewPane = Pane(0, 0)
  /\ isSyncingFromSource = FALSE
  /\ isSyncingFromPreview = FALSE
  /\ scrollEvents = {}
  /\ echoes = {}
  /\ animationFrames = {}

InitWithReads(gestures, changes, inFlight) ==
  /\ disk = [f \in Files |-> IF f = "/a.md" THEN "a" ELSE "b"]
  /\ mainWindow = TRUE
  /\ mCurrentFilePath = Null
  /\ mIsDirty = FALSE
  /\ fileWatcher = Null
  /\ debounceTimer = FALSE
  /\ reads = <<>>
  /\ opens = <<>>
  /\ writes = <<>>
  /\ m2r = <<>>
  /\ r2m = <<>>
  /\ currentHtml = ""
  /\ currentRaw = ""
  /\ currentFilePath = ""
  /\ viewMode = "rendered"
  /\ isDirty = FALSE
  /\ editor = NoEditor
  /\ shown = ""
  /\ autoSaveTimer = FALSE
  /\ previewDebounce = FALSE
  /\ stalePreviews = {}
  /\ awaiting = <<>>
  /\ pendingExternalHtml = Null
  /\ pendingExternalRaw = Null
  /\ conflictBanners = 0
  /\ bannerHidden = FALSE
  /\ persisted = ""
  /\ lastStep = "init"
  /\ budget = [user |-> gestures, external |-> changes, reads |-> inFlight]
  /\ openWatchers = {}
  /\ reloadTimeouts = {}
  /\ ScrollInit

InitWith(gestures, changes) == InitWithReads(gestures, changes, MaxInFlight)

\* Nothing was rendered or searched yet.
NoSvg == [parseError |-> TRUE, root |-> Element("svg", <<>>, <<>>)]
AuxInit ==
  /\ MermaidInit /\ SearchInit(<<>>) /\ CompileInit([type |-> "space"])
  /\ SvgInit(NoSvg)

Init == InitWith(MaxUser, MaxExternal) /\ AuxInit

\* Remove the i-th element of a sequence.
RemoveAt(s, i) == [j \in 1..(Len(s) - 1) |-> IF j < i THEN s[j] ELSE s[j + 1]]

\* ------------------------------------------------------------------------
\* Main process
\* ------------------------------------------------------------------------

\* mainWindow.webContents.send(...): append to the main -> renderer channel.
Send(q, m) == Append(q, m)
CanSend(n) == Len(m2r) + n <= MaxQueue

\* A pending timeout: the path of the watch whose 'change' handler armed it,
\* and whether debounceTimer is its handle.
Timeout(p, held) == [path |-> p, held |-> held]

\* clearTimeout(debounceTimer)
clearTimeout(ts) == {t \in ts : ~t.held}

\* debounceTimer = setTimeout(() => reloadCurrentFile(), 300)
setTimeout(ts, p) == {Timeout(t.path, FALSE) : t \in ts} \cup {Timeout(p, TRUE)}

\* stopWatching() clears the debounce timer and closes the watcher;
\* startWatching(p) calls stopWatching() and installs a watcher on p.
stopWatching ==
  /\ debounceTimer' = FALSE
  /\ fileWatcher' = Null
  /\ reloadTimeouts' = clearTimeout(reloadTimeouts)
  /\ openWatchers' = openWatchers \ {fileWatcher}

\* Variant: installs the new watcher without stopWatching().
startWatchingKeepingOld(p) ==
  /\ debounceTimer' = debounceTimer
  /\ fileWatcher' = p
  /\ reloadTimeouts' = reloadTimeouts
  /\ openWatchers' = openWatchers \cup {p}

startWatching(p) ==
  /\ debounceTimer' = FALSE
  /\ fileWatcher' = p
  /\ reloadTimeouts' = clearTimeout(reloadTimeouts)
  /\ openWatchers' = (openWatchers \ {fileWatcher}) \cup {p}

\* openFile after its dirty check: extension check, then path.resolve and the
\* first await (fs.stat).
\* (route and wasDirty are history: the route the open took through the dirty
\* check, and whether the document had unsaved edits known to the main
\* process when the open was requested.)
openFileContinue(p, route, wasDirty) ==
  IF ~isAllowedFile(p)
  THEN /\ CanSend(1)
       /\ m2r' = Send(m2r, Msg("error", "", "", "", "", "", FALSE))
       /\ UNCHANGED opens
  ELSE /\ Len(opens) < MaxInFlight
       /\ opens' = Append(opens, [kind |-> "open", p |-> PathResolve(p), stage |-> "stat",
                                  route |-> route, wasDirty |-> wasDirty])
       /\ UNCHANGED m2r

\* openFile(filePath) as called from the menu, the recent-files list, the OS
\* open-file event and the second-instance command line.
OpenFile(p, choice) ==
  /\ UNCHANGED auxVars
  /\ mainWindow
  /\ budget.user > 0
  /\ budget' = [budget EXCEPT !.user = @ - 1]
  /\ IF mIsDirty /\ mCurrentFilePath # Null
     THEN \/ /\ choice = "Save"
             /\ CanSend(1)
             /\ m2r' = Send(m2r, Msg("save-before-open", "", "", "", "", p, FALSE))
             /\ UNCHANGED <<mIsDirty, opens>>
          \/ /\ choice = "Cancel"
             /\ UNCHANGED <<mIsDirty, opens, m2r>>
          \/ /\ choice = "DontSave"
             /\ mIsDirty' = FALSE
             /\ openFileContinue(p, "DontSave", isDirty)
     ELSE /\ choice = "NoPrompt"
          /\ UNCHANGED mIsDirty
          /\ openFileContinue(p, "NoPrompt", isDirty /\ mIsDirty)
  /\ lastStep' = ""
  /\ UNCHANGED <<disk, mainWindow, mCurrentFilePath, fileWatcher, debounceTimer, reads, writes,
                 r2m, rendererVars, persisted>>

\* The error an open reports: sendError for openFile, an { error } result
\* for open-dropped-file.
OpenError(op) ==
  IF op.kind = "open" THEN Msg("error", "", "", "", "", "", FALSE)
  ELSE Msg("drop-reply", "", "", "", "", "", FALSE)

\* fs.stat completes: a missing path throws, a directory is "not a file".
OpenStat(i) ==
  /\ UNCHANGED auxVars
  /\ mainWindow
  /\ i \in 1..Len(opens)
  /\ opens[i].stage = "stat"
  /\ IF opens[i].p = DirPath \/ disk[opens[i].p] = NoFile
     THEN /\ CanSend(1)
          /\ m2r' = Send(m2r, OpenError(opens[i]))
          /\ opens' = RemoveAt(opens, i)
     ELSE /\ opens' = [opens EXCEPT ![i].stage = "read"]
          /\ UNCHANGED m2r
  /\ lastStep' = ""
  /\ UNCHANGED <<disk, mainWindow, mCurrentFilePath, mIsDirty, fileWatcher, debounceTimer, reads,
                 writes, r2m, rendererVars, persisted, budget>>

\* fs.readFile completes: the file becomes the current file, the watcher is
\* replaced and the content is delivered.
OpenRead(i) ==
  /\ UNCHANGED auxRest
  /\ mainWindow
  /\ i \in 1..Len(opens)
  /\ opens[i].stage = "read"
  /\ CanSend(1)
  /\ opens' = RemoveAt(opens, i)
  /\ IF disk[opens[i].p] = NoFile
     THEN /\ m2r' = Send(m2r, OpenError(opens[i]))
          /\ UNCHANGED <<mCurrentFilePath, fileWatcher, debounceTimer, watchVars>>
     ELSE /\ mCurrentFilePath' = opens[i].p
          /\ startWatching(opens[i].p)
          /\ m2r' = Send(m2r, Msg(IF opens[i].kind = "open" THEN "file-opened" ELSE "drop-reply",
                                  opens[i].p, disk[opens[i].p], parseMarkdown(disk[opens[i].p]),
                                  opens[i].route, IF opens[i].wasDirty THEN "dirty" ELSE "", TRUE))
  /\ lastStep' = ""
  /\ UNCHANGED <<disk, mainWindow, mIsDirty, reads, writes, r2m, rendererVars, persisted, budget>>

\* chokidar 'change': (re)arm the 300 ms debounce timer.
WatcherChange(p) == IF p \in openWatchers THEN TRUE ELSE debounceTimer

\* Variant: the 'change' handler arms a timeout without clearing the pending one.
onChangeKeepingPending(ts, p) == setTimeout(ts, p)

\* if (debounceTimer) clearTimeout(debounceTimer); debounceTimer = setTimeout(...)
onChange(ts, p) == setTimeout(clearTimeout(ts), p)

\* The timeouts after a file that exists was written at p.
TimeoutsAfterChange(p) == IF p \in openWatchers THEN onChange(reloadTimeouts, p) ELSE reloadTimeouts

\* Another program rewrites a file.
ExternalWrite(p, c) ==
  /\ UNCHANGED <<auxRest, openWatchers>>
  /\ mainWindow
  /\ budget.external > 0
  /\ c # disk[p]
  /\ budget' = [budget EXCEPT !.external = @ - 1]
  /\ debounceTimer' = IF disk[p] # NoFile THEN WatcherChange(p) ELSE debounceTimer
  /\ reloadTimeouts' = IF disk[p] # NoFile THEN TimeoutsAfterChange(p) ELSE reloadTimeouts
  /\ disk' = [disk EXCEPT ![p] = c]
  /\ lastStep' = ""
  /\ UNCHANGED <<mainWindow, mCurrentFilePath, mIsDirty, fileWatcher, reads, opens, writes,
                 m2r, r2m, rendererVars, persisted>>

\* Another program deletes a file; chokidar 'unlink' tears the watch down.
ExternalDelete(p) ==
  /\ UNCHANGED auxRest
  /\ mainWindow
  /\ budget.external > 0
  /\ disk[p] # NoFile
  /\ budget' = [budget EXCEPT !.external = @ - 1]
  /\ disk' = [disk EXCEPT ![p] = NoFile]
  /\ IF fileWatcher = p
     THEN /\ CanSend(1)
          /\ stopWatching
          /\ m2r' = Send(m2r, Msg("file-deleted", p, "", "", "", "", FALSE))
     ELSE UNCHANGED <<fileWatcher, debounceTimer, m2r, watchVars>>
  /\ lastStep' = ""
  /\ UNCHANGED <<mainWindow, mCurrentFilePath, mIsDirty, reads, opens, writes,
                 r2m, rendererVars, persisted>>

\* The debounce timer fires: reloadCurrentFile() up to its await.
DebounceFire ==
  /\ UNCHANGED <<auxRest, openWatchers>>
  /\ mainWindow
  /\ \E t \in reloadTimeouts :
       /\ reloadTimeouts' = reloadTimeouts \ {t}
       /\ debounceTimer' = IF t.held THEN FALSE ELSE debounceTimer
  /\ IF mCurrentFilePath = Null
     THEN UNCHANGED reads
     ELSE /\ Len(reads) < budget.reads
          /\ reads' = Append(reads, mCurrentFilePath)
  /\ lastStep' = ""
  /\ UNCHANGED <<disk, mainWindow, mCurrentFilePath, mIsDirty, fileWatcher, opens, writes,
                 m2r, r2m, rendererVars, persisted, budget>>

\* reloadCurrentFile() after fs.readFile: deliver file-changed, or on a read
\* error stop watching and deliver file-deleted. (file-changed carries only
\* { html, raw }; the path field of the modelled message records which file
\* was read and no handler looks at it.)
ReloadRead(i) ==
  /\ UNCHANGED auxRest
  /\ mainWindow
  /\ i \in 1..Len(reads)
  /\ CanSend(1)
  /\ reads' = RemoveAt(reads, i)
  /\ IF disk[reads[i]] = NoFile
     THEN /\ stopWatching
          /\ m2r' = Send(m2r, Msg("file-deleted", mCurrentFilePath, "", "", "", "", FALSE))
     ELSE /\ m2r' = Send(m2r, Msg("file-changed", reads[i], disk[reads[i]], parseMarkdown(disk[reads[i]]),
                                  "", "", TRUE))
          /\ UNCHANGED <<fileWatcher, debounceTimer, watchVars>>
  /\ lastStep' = ""
  /\ UNCHANGED <<disk, mainWindow, mCurrentFilePath, mIsDirty, opens, writes,
                 r2m, rendererVars, persisted, budget>>

\* ipcMain.handle('set-dirty')
HandleSetDirty ==
  /\ UNCHANGED auxVars
  /\ mainWindow
  /\ r2m # <<>> /\ Head(r2m).t = "set-dirty"
  /\ mIsDirty' = Head(r2m).ok
  /\ r2m' = Tail(r2m)
  /\ lastStep' = ""
  /\ UNCHANGED <<disk, mainWindow, mCurrentFilePath, fileWatcher, debounceTimer, reads, opens,
                 writes, m2r, rendererVars, persisted, budget>>

\* Variant: the handler without the comparison with the current file
SaveFileVerdictNoPathCheck(cur, filePath) ==
  IF cur = Null THEN "no-file"
  ELSE IF ~isAllowedFile(PathResolve(filePath)) THEN "bad-type"
  ELSE "write"

\* The decision of ipcMain.handle('save-file') before it writes.
SaveFileVerdict(cur, filePath) ==
  IF cur = Null THEN "no-file"
  ELSE IF PathResolve(filePath) # cur THEN "other-path"
  ELSE IF ~isAllowedFile(PathResolve(filePath)) THEN "bad-type"
  ELSE "write"

\* ipcMain.handle('save-file') up to its await (fs.writeFile).
\* (history) The file was deleted, the watcher saw it and tore the watch down,
\* and the renderer has been told.
Vanished(p) ==
  /\ disk[p] = NoFile /\ fileWatcher = Null /\ mCurrentFilePath = p
  /\ \A i \in DOMAIN m2r : m2r[i].t # "file-deleted"

HandleSaveFile ==
  /\ UNCHANGED auxVars
  /\ mainWindow
  /\ r2m # <<>> /\ Head(r2m).t = "save-file"
  /\ r2m' = Tail(r2m)
  /\ IF SaveFileVerdict(mCurrentFilePath, Head(r2m).p) = "write"
     THEN /\ Len(writes) < MaxInFlight
          /\ writes' = Append(writes, [p |-> PathResolve(Head(r2m).p), c |-> Head(r2m).c,
                                       k |-> Head(r2m).k, p2 |-> Head(r2m).p2,
                                       gone |-> Vanished(PathResolve(Head(r2m).p))])
          /\ UNCHANGED m2r
     ELSE /\ CanSend(1)
          /\ m2r' = Send(m2r, Msg("save-reply", Head(r2m).p, Head(r2m).c, "", Head(r2m).k,
                                  Head(r2m).p2, FALSE))
          /\ UNCHANGED writes
  /\ lastStep' = IF SaveFileVerdict(mCurrentFilePath, Head(r2m).p) = "write" THEN "" ELSE "refused"
  /\ UNCHANGED <<disk, mainWindow, mCurrentFilePath, mIsDirty, fileWatcher, debounceTimer, reads,
                 opens, rendererVars, persisted, budget>>

\* fs.writeFile completes, with success (the file is created or replaced and
\* the watcher sees the change) or with an I/O error.
WriteDone(i, ok) ==
  /\ UNCHANGED <<auxRest, openWatchers>>
  /\ mainWindow
  /\ i \in 1..Len(writes)
  /\ CanSend(1)
  /\ writes' = RemoveAt(writes, i)
  /\ m2r' = Send(m2r, Msg("save-reply", writes[i].p, writes[i].c, "", writes[i].k, writes[i].p2, ok))
  /\ IF ok
     THEN /\ disk' = [disk EXCEPT ![writes[i].p] = writes[i].c]
          /\ debounceTimer' = IF disk[writes[i].p] # NoFile THEN WatcherChange(writes[i].p)
                              ELSE debounceTimer
          /\ reloadTimeouts' = IF disk[writes[i].p] # NoFile THEN TimeoutsAfterChange(writes[i].p)
                               ELSE reloadTimeouts
     ELSE UNCHANGED <<disk, debounceTimer, reloadTimeouts>>
  /\ lastStep' = ""
  /\ UNCHANGED <<mainWindow, mCurrentFilePath, mIsDirty, fileWatcher, reads, opens,
                 r2m, rendererVars, persisted, budget>>

\* ipcMain.handle('open-dropped-file') up to its first await: no dirty check.
HandleOpenDroppedFile ==
  /\ UNCHANGED auxVars
  /\ mainWindow
  /\ r2m # <<>> /\ Head(r2m).t = "open-dropped-file"
  /\ r2m' = Tail(r2m)
  /\ IF ~isAllowedFile(Head(r2m).p)
     THEN /\ CanSend(1)
          /\ m2r' = Send(m2r, Msg("drop-reply", "", "", "", "", "", FALSE))
          /\ UNCHANGED opens
     ELSE /\ Len(opens) < MaxInFlight
          /\ opens' = Append(opens, [kind |-> "drop", p |-> PathResolve(Head(r2m).p), stage |-> "stat",
                                     route |-> "Drop", wasDirty |-> Head(r2m).ok])
          /\ UNCHANGED m2r
  /\ lastStep' = ""
  /\ UNCHANGED <<disk, mainWindow, mCurrentFilePath, mIsDirty, fileWatcher, debounceTimer, reads,
                 writes, rendererVars, persisted, budget>>

\* ipcMain.handle('open-file-after-save'): clears the mirror and opens with
\* skipDirtyCheck.
HandleOpenFileAfterSave ==
  /\ UNCHANGED auxVars
  /\ mainWindow
  /\ r2m # <<>> /\ Head(r2m).t = "open-file-after-save"
  /\ r2m' = Tail(r2m)
  /\ mIsDirty' = FALSE
  /\ openFileContinue(Head(r2m).p, "AfterSave", FALSE)
  /\ lastStep' = ""
  /\ UNCHANGED <<disk, mainWindow, mCurrentFilePath, fileWatcher, debounceTimer, reads,
                 writes, rendererVars, persisted, budget>>

\* mainWindow 'closed': stopWatching(), mainWindow = null, currentFilePath = null.
WindowClosed ==
  /\ mainWindow' = FALSE
  /\ mCurrentFilePath' = Null
  /\ stopWatching

\* mainWindow.on('close'): with the mirror set, prompt; Save asks the renderer
\* to save and close, Don't Save clears the mirror and closes, Cancel keeps
\* the window. Without the mirror set the window closes.
closeHandler(choice) ==
  IF mIsDirty
  THEN \/ /\ choice = "Save"
          /\ CanSend(1)
          /\ m2r' = Send(m2r, Msg("save-and-close", "", "", "", "", "", FALSE))
          /\ UNCHANGED <<mainWindow, mCurrentFilePath, mIsDirty, fileWatcher, debounceTimer,
                         watchVars>>
       \/ /\ choice = "DontSave"
          /\ mIsDirty' = FALSE
          /\ WindowClosed
          /\ UNCHANGED m2r
       \/ /\ choice = "Cancel"
          /\ UNCHANGED <<mainWindow, mCurrentFilePath, mIsDirty, fileWatcher, debounceTimer, m2r,
                         watchVars>>
  ELSE /\ choice = "NoPrompt"
       /\ WindowClosed
       /\ UNCHANGED <<mIsDirty, m2r>>

\* The user asks to close the window.
CloseRequest(choice) ==
  /\ UNCHANGED auxRest
  /\ mainWindow
  /\ budget.user > 0
  /\ budget' = [budget EXCEPT !.user = @ - 1]
  /\ closeHandler(choice)
  /\ lastStep' = "close:" \o choice
  /\ UNCHANGED <<disk, reads, opens, writes, r2m, rendererVars, persisted>>

\* window.close() called by the renderer after save-and-close.
HandleWindowClose(choice) ==
  /\ UNCHANGED auxRest
  /\ mainWindow
  /\ r2m # <<>> /\ Head(r2m).t = "close"
  /\ r2m' = Tail(r2m)
  /\ closeHandler(choice)
  /\ lastStep' = "close:" \o choice
  /\ UNCHANGED <<disk, reads, opens, writes, rendererVars, persisted, budget>>


\* ------------------------------------------------------------------------
\* Renderer
\* ------------------------------------------------------------------------

\* A call suspended in parseMarkdown: k names the function (tvs:
\* toggleViewSource, tsv: toggleSplitView, prev: the preview timer callback of
\* the live split editor, prevStale: that of a discarded one), c is the text.
Await(k, c) == [k |-> k, c |-> c]

\* A re-render replaces the content element: preview callbacks of the
\* replaced split editor keep running on detached elements.
Detach(q) == [i \in 1..Len(q) |-> IF q[i].k = "prev" THEN [q[i] EXCEPT !.k = "prevStale"] ELSE q[i]]

\* Channel updates of a renderer step: consume the head of m2r or not, and
\* invoke `sends`.
Channels(consume, sends) ==
  /\ Len(r2m) + Len(sends) <= MaxQueue
  /\ m2r' = IF consume THEN Tail(m2r) ELSE m2r
  /\ r2m' = r2m \o sends

\* The content element after a render: the editable buffer and the html pane.
\* `aw` is the list of suspended calls before the render.
SetView(ed, pane, aw) ==
  /\ editor' = ed
  /\ shown' = pane
  /\ previewDebounce' = FALSE
  /\ stalePreviews' = IF previewDebounce THEN stalePreviews \cup {editor} ELSE stalePreviews
  /\ awaiting' = Detach(aw)

\* renderSource(raw), renderSplitView(), renderMarkdown(html)
renderSource(raw, aw) == SetView(raw, NoPane, aw)
renderSplitView(raw, html, aw) == SetView(raw, html, aw)
renderMarkdown(html, aw) == SetView(NoEditor, html, aw)

\* renderCurrentView() for the given view mode and document.
renderCurrentView(mode, raw, html, aw) ==
  IF mode = "source" THEN renderSource(raw, aw)
  ELSE IF mode = "split" THEN renderSplitView(raw, html, aw)
  ELSE renderMarkdown(html, aw)

\* setDirty(dirty): the flag, the message to the main process, and
\* cancelAutoSave() when the flag is cleared.
SetDirtyMsg(d) == Msg("set-dirty", "", "", "", "", "", d)
\* Variant: setDirty(false) without cancelAutoSave().
setDirtyKeepingTimer(d, timer) ==
  /\ isDirty' = d
  /\ autoSaveTimer' = IF d THEN timer ELSE autoSaveTimer

setDirty(d, timer) ==
  /\ isDirty' = d
  /\ autoSaveTimer' = IF d THEN timer ELSE FALSE

\* The text saveCurrentContent() writes: the editor's in source / split view,
\* currentRaw otherwise.
SaveContent == IF viewMode \in {"source", "split"} /\ editor # NoEditor THEN editor ELSE currentRaw

\* saveCurrentContent() up to its await; without an open file it returns false.
SaveCurrentContentMsgs(k, p2) ==
  IF currentFilePath = "" THEN <<>>
  ELSE <<Msg("save-file", currentFilePath, SaveContent, "", k, p2, FALSE)>>

\* The 'input' listener of the source editor (renderSource) and of the split
\* editor (renderSplitView).
Edit(c) ==
  /\ UNCHANGED auxVars
  /\ mainWindow
  /\ editor # NoEditor
  /\ c # editor
  /\ budget.user > 0
  /\ budget' = [budget EXCEPT !.user = @ - 1]
  /\ editor' = c
  /\ setDirty(TRUE, TRUE)
  /\ Channels(FALSE, IF isDirty THEN <<>> ELSE <<SetDirtyMsg(TRUE)>>)
  /\ IF viewMode = "source"
     THEN /\ currentRaw' = c
          /\ UNCHANGED previewDebounce
     ELSE /\ previewDebounce' = TRUE
          /\ UNCHANGED currentRaw
  /\ lastStep' = ""
  /\ UNCHANGED <<disk, mainVars, currentHtml, currentFilePath, viewMode, shown, stalePreviews,
                 awaiting, conflictVars, persisted>>

\* Suspend the running function in `await window.inkwell.parseMarkdown(c)`.
Suspend(k, c) ==
  /\ Len(awaiting) < MaxInFlight
  /\ awaiting' = Append(awaiting, Await(k, c))

\* toggleViewSource() up to its await, or to its end when it does not await.
ToggleViewSource ==
  /\ UNCHANGED auxVars
  /\ mainWindow
  /\ budget.user > 0
  /\ budget' = [budget EXCEPT !.user = @ - 1]
  /\ ~(currentRaw = "" /\ viewMode = "rendered")
  /\ viewMode # "split"
  /\ IF viewMode = "source"
     THEN IF editor # NoEditor /\ editor # currentRaw
          THEN /\ currentRaw' = editor
               /\ Suspend("tvs", editor)
               /\ UNCHANGED <<viewMode, editor, shown, previewDebounce, stalePreviews>>
          ELSE /\ viewMode' = "rendered"
               /\ renderCurrentView("rendered", currentRaw, currentHtml, awaiting)
               /\ UNCHANGED currentRaw
     ELSE /\ viewMode' = "source"
          /\ renderCurrentView("source", currentRaw, currentHtml, awaiting)
          /\ UNCHANGED currentRaw
  /\ lastStep' = ""
  /\ UNCHANGED <<disk, mainVars, m2r, r2m, currentHtml, currentFilePath, isDirty, autoSaveTimer,
                 conflictVars, persisted>>

\* toggleSplitView() up to its await, or to its end when it does not await.
ToggleSplitView ==
  /\ UNCHANGED auxVars
  /\ mainWindow
  /\ budget.user > 0
  /\ budget' = [budget EXCEPT !.user = @ - 1]
  /\ currentRaw # ""
  /\ IF viewMode = "source" /\ editor # NoEditor /\ editor # currentRaw
     THEN /\ currentRaw' = editor
          /\ Suspend("tsv", editor)
          /\ UNCHANGED <<viewMode, editor, shown, previewDebounce, stalePreviews>>
     ELSE /\ viewMode' = IF viewMode = "split" THEN "rendered" ELSE "split"
          /\ renderCurrentView(viewMode', currentRaw, currentHtml, awaiting)
          /\ UNCHANGED currentRaw
  /\ lastStep' = ""
  /\ UNCHANGED <<disk, mainVars, m2r, r2m, currentHtml, currentFilePath, isDirty, autoSaveTimer,
                 conflictVars, persisted>>

\* parseMarkdown returns (ipcMain.handle('parse-markdown') runs
\* parseMarkdown(content)) and the oldest suspended call resumes:
\* toggleViewSource / toggleSplitView switch the view, the preview callback
\* refreshes its preview pane.
ResumeParsed ==
  /\ UNCHANGED auxVars
  /\ mainWindow
  /\ awaiting # <<>>
  /\ currentHtml' = parseMarkdown(Head(awaiting).c)
  /\ IF Head(awaiting).k = "tvs"
     THEN /\ viewMode' = "rendered"
          /\ renderCurrentView("rendered", currentRaw, currentHtml', Tail(awaiting))
     ELSE IF Head(awaiting).k = "tsv"
     THEN /\ viewMode' = IF viewMode = "split" THEN "rendered" ELSE "split"
          /\ renderCurrentView(viewMode', currentRaw, currentHtml', Tail(awaiting))
     ELSE /\ shown' = IF Head(awaiting).k = "prev" THEN currentHtml' ELSE shown
          /\ awaiting' = Tail(awaiting)
          /\ UNCHANGED <<viewMode, editor, previewDebounce, stalePreviews>>
  /\ lastStep' = ""
  /\ UNCHANGED <<disk, mainVars, m2r, r2m, currentRaw, currentFilePath, isDirty, autoSaveTimer,
                 conflictVars, persisted, budget>>

\* The preview timer of the live split editor fires (500 ms after the last
\* input): currentRaw is taken from the editor and a recompilation requested.
PreviewFire ==
  /\ UNCHANGED auxVars
  /\ mainWindow
  /\ previewDebounce
  /\ previewDebounce' = FALSE
  /\ currentRaw' = editor
  /\ Suspend("prev", editor)
  /\ lastStep' = ""
  /\ UNCHANGED <<disk, mainVars, m2r, r2m, currentHtml, currentFilePath, viewMode, isDirty, editor,
                 shown, stalePreviews, autoSaveTimer, conflictVars, persisted, budget>>

\* The preview timer of a discarded split editor fires: the closure still
\* reads its detached textarea.
StalePreviewFire(c) ==
  /\ UNCHANGED auxVars
  /\ mainWindow
  /\ c \in stalePreviews
  /\ stalePreviews' = stalePreviews \ {c}
  /\ currentRaw' = c
  /\ Suspend("prevStale", c)
  /\ lastStep' = ""
  /\ UNCHANGED <<disk, mainVars, m2r, r2m, currentHtml, currentFilePath, viewMode, isDirty, editor,
                 shown, previewDebounce, autoSaveTimer, conflictVars, persisted, budget>>

\* saveFile() (Cmd+S) up to its await; it only shows an error without an open
\* file or in rendered view.
SaveFile ==
  /\ UNCHANGED auxVars
  /\ mainWindow
  /\ budget.user > 0
  /\ budget' = [budget EXCEPT !.user = @ - 1]
  /\ currentFilePath # ""
  /\ viewMode # "rendered"
  /\ editor # NoEditor
  /\ Channels(FALSE, <<Msg("save-file", currentFilePath, editor, "", "saveFile", "", FALSE)>>)
  /\ lastStep' = ""
  /\ UNCHANGED <<disk, mainVars, rendererVars, persisted>>

\* The autosave timer fires.
AutoSaveFire ==
  /\ UNCHANGED auxVars
  /\ mainWindow
  /\ autoSaveTimer
  /\ autoSaveTimer' = FALSE
  /\ IF isDirty /\ currentFilePath # "" /\ viewMode \in {"source", "split"}
     THEN /\ Channels(FALSE, SaveCurrentContentMsgs("auto", ""))
          /\ lastStep' = "autosave"
     ELSE /\ UNCHANGED <<m2r, r2m>>
          /\ lastStep' = ""
  /\ UNCHANGED <<disk, mainVars, docVars, viewVars, conflictVars, persisted, budget>>

\* onSaveBeforeOpen / onSaveAndClose up to the await in saveCurrentContent().
RecvSaveBeforeOpen ==
  /\ UNCHANGED auxVars
  /\ mainWindow
  /\ m2r # <<>> /\ Head(m2r).t = "save-before-open"
  /\ Channels(TRUE, SaveCurrentContentMsgs("beforeOpen", Head(m2r).p2))
  /\ lastStep' = ""
  /\ UNCHANGED <<disk, mainVars, rendererVars, persisted, budget>>

RecvSaveAndClose ==
  /\ UNCHANGED auxVars
  /\ mainWindow
  /\ m2r # <<>> /\ Head(m2r).t = "save-and-close"
  /\ Channels(TRUE, SaveCurrentContentMsgs("close", ""))
  /\ lastStep' = ""
  /\ UNCHANGED <<disk, mainVars, rendererVars, persisted, budget>>

\* What the awaiting function does after a successful save, besides
\* setDirty(false): window.close(), or open-file-after-save.
AfterSave(m) ==
  IF m.k = "close" THEN <<Msg("close", "", "", "", "", "", FALSE)>>
  ELSE IF m.k = "beforeOpen" THEN <<Msg("open-file-after-save", m.p2, "", "", "", "", FALSE)>>
  ELSE <<>>

\* The result of save-file arrives: saveFile() / saveCurrentContent() resume.
RecvSaveReply ==
  /\ UNCHANGED auxVars
  /\ mainWindow
  /\ m2r # <<>> /\ Head(m2r).t = "save-reply"
  /\ IF Head(m2r).ok
     THEN /\ currentRaw' = IF Head(m2r).k = "saveFile" THEN Head(m2r).c ELSE currentRaw
          /\ setDirty(FALSE, FALSE)
          /\ Channels(TRUE, <<SetDirtyMsg(FALSE)>> \o AfterSave(Head(m2r)))
          /\ persisted' = Head(m2r).c
          /\ lastStep' = ""
     ELSE /\ Channels(TRUE, <<>>)
          /\ lastStep' = ""
          /\ UNCHANGED <<currentRaw, isDirty, autoSaveTimer, persisted>>
  /\ UNCHANGED <<disk, mainVars, currentHtml, currentFilePath, viewMode, viewVars,
                 conflictVars, budget>>

\* Variant: the open keeps the view mode of the previous document
InstallOpenedKeepsMode(m) ==
  /\ currentHtml' = m.h
  /\ currentRaw' = m.c
  /\ currentFilePath' = m.p
  /\ viewMode' = viewMode
  /\ setDirty(FALSE, FALSE)
  /\ renderMarkdown(m.h, awaiting)
  /\ Channels(TRUE, <<SetDirtyMsg(FALSE)>>)
  /\ persisted' = m.c

\* The document and view after a file was opened (onFileOpened, and the drop
\* handler on a successful result).
InstallOpened(m) ==
  /\ currentHtml' = m.h
  /\ currentRaw' = m.c
  /\ currentFilePath' = m.p
  /\ viewMode' = "rendered"
  /\ setDirty(FALSE, FALSE)
  /\ renderMarkdown(m.h, awaiting)
  /\ Channels(TRUE, <<SetDirtyMsg(FALSE)>>)
  /\ persisted' = m.c

\* window.inkwell.onFileOpened
RecvFileOpened ==
  /\ UNCHANGED auxVars
  /\ mainWindow
  /\ m2r # <<>> /\ Head(m2r).t = "file-opened"
  /\ InstallOpened(Head(m2r))
  /\ lastStep' = IF isDirty THEN "opened-dirty" ELSE "opened"
  /\ UNCHANGED <<disk, mainVars, conflictVars, budget>>

\* The 'drop' listener up to its await: no dirty check before the request.
Drop(p) ==
  /\ UNCHANGED auxVars
  /\ mainWindow
  /\ budget.user > 0
  /\ budget' = [budget EXCEPT !.user = @ - 1]
  /\ Channels(FALSE, <<Msg("open-dropped-file", p, "", "", "", "", isDirty)>>)
  /\ lastStep' = ""
  /\ UNCHANGED <<disk, mainVars, rendererVars, persisted>>

\* The 'drop' listener after open-dropped-file returned.
RecvDropReply ==
  /\ UNCHANGED auxVars
  /\ mainWindow
  /\ m2r # <<>> /\ Head(m2r).t = "drop-reply"
  /\ IF Head(m2r).ok
     THEN /\ InstallOpened(Head(m2r))
          /\ lastStep' = IF isDirty THEN "opened-dirty" ELSE "opened"
     ELSE /\ Channels(TRUE, <<>>)
          /\ lastStep' = ""
          /\ UNCHANGED <<docVars, viewVars, autoSaveTimer, persisted>>
  /\ UNCHANGED <<disk, mainVars, conflictVars, budget>>

\* The banner can be clicked when it exists and is not hidden.
BannerVisible == conflictBanners > 0 /\ ~bannerHidden

\* Variant: the banner is created on every call
showConflictBannerAlwaysCreates(html, raw) ==
  /\ pendingExternalHtml' = html
  /\ pendingExternalRaw' = raw
  /\ conflictBanners' = conflictBanners + 1
  /\ bannerHidden' = FALSE

\* showConflictBanner(html, raw): remember the external version; create the
\* banner only if the document has none; show it.
showConflictBanner(html, raw) ==
  /\ pendingExternalHtml' = html
  /\ pendingExternalRaw' = raw
  /\ conflictBanners' = IF conflictBanners = 0 THEN 1 ELSE conflictBanners
  /\ bannerHidden' = FALSE

\* Variants: the test always fails / always succeeds
NeverConflictPath(dirty) == FALSE
AlwaysConflictPath(dirty) == TRUE

\* onFileChanged's test `if (isDirty)`: unsaved changes take the conflict
\* path instead of the reload.
TakesConflictPath(dirty) == dirty

\* window.inkwell.onFileChanged
RecvFileChanged ==
  /\ UNCHANGED auxVars
  /\ mainWindow
  /\ m2r # <<>> /\ Head(m2r).t = "file-changed"
  /\ IF TakesConflictPath(isDirty)
     THEN /\ showConflictBanner(Head(m2r).h, Head(m2r).c)
          /\ Channels(TRUE, <<>>)
          /\ lastStep' = IF BannerVisible THEN "conflict-again" ELSE "conflict"
          /\ UNCHANGED <<currentHtml, currentRaw, viewVars, persisted>>
     ELSE /\ currentHtml' = Head(m2r).h
          /\ currentRaw' = Head(m2r).c
          /\ renderCurrentView(viewMode, Head(m2r).c, Head(m2r).h, awaiting)
          /\ Channels(TRUE, <<>>)
          /\ persisted' = Head(m2r).c
          /\ lastStep' = "adopt"
          /\ UNCHANGED conflictVars
  /\ UNCHANGED <<disk, mainVars, currentFilePath, viewMode, isDirty, autoSaveTimer, budget>>

\* onFileDeleted / onError: showError only.
RecvNotice ==
  /\ UNCHANGED auxVars
  /\ mainWindow
  /\ m2r # <<>> /\ Head(m2r).t \in {"file-deleted", "error"}
  /\ Channels(TRUE, <<>>)
  /\ lastStep' = ""
  /\ UNCHANGED <<disk, mainVars, rendererVars, persisted, budget>>

\* Variant: the reload without renderCurrentView()
ReloadFromRecordNoRender(html, raw) ==
  /\ currentHtml' = html
  /\ currentRaw' = raw
  /\ setDirty(FALSE, FALSE)
  /\ Channels(FALSE, <<SetDirtyMsg(FALSE)>>)
  /\ persisted' = raw
  /\ UNCHANGED viewVars

\* The "Reload from disk" handler with a pending record: adopt the external
\* version, setDirty(false), renderCurrentView().
ReloadFromRecord(html, raw) ==
  /\ currentHtml' = html
  /\ currentRaw' = raw
  /\ setDirty(FALSE, FALSE)
  /\ renderCurrentView(viewMode, raw, html, awaiting)
  /\ Channels(FALSE, <<SetDirtyMsg(FALSE)>>)
  /\ persisted' = raw

\* Click on "Reload from disk".
ConflictReload ==
  /\ UNCHANGED auxVars
  /\ mainWindow
  /\ budget.user > 0
  /\ budget' = [budget EXCEPT !.user = @ - 1]
  /\ BannerVisible
  /\ bannerHidden' = TRUE
  /\ IF pendingExternalHtml # Null
     THEN ReloadFromRecord(pendingExternalHtml, pendingExternalRaw)
     ELSE UNCHANGED <<currentHtml, currentRaw, isDirty, autoSaveTimer, viewVars, m2r, r2m, persisted>>
  /\ pendingExternalHtml' = Null
  /\ pendingExternalRaw' = Null
  /\ lastStep' = "reload"
  /\ UNCHANGED <<disk, mainVars, currentFilePath, viewMode, conflictBanners>>

\* Click on "Keep my changes".
ConflictKeep ==
  /\ UNCHANGED auxVars
  /\ mainWindow
  /\ budget.user > 0
  /\ budget' = [budget EXCEPT !.user = @ - 1]
  /\ BannerVisible
  /\ bannerHidden' = TRUE
  /\ pendingExternalHtml' = Null
  /\ pendingExternalRaw' = Null
  /\ lastStep' = "keep"
  /\ UNCHANGED <<disk, mainVars, m2r, r2m, docVars, viewVars, autoSaveTimer, conflictBanners,
                 persisted>>

\* ------------------------------------------------------------------------
\* Specification
\* ------------------------------------------------------------------------
Choices == {"Save", "DontSave", "Cancel", "NoPrompt"}

Next ==
  \/ \E p \in OpenInputs, ch \in Choices : OpenFile(p, ch)
  \/ \E i \in 1..MaxInFlight : OpenStat(i)
  \/ \E i \in 1..MaxInFlight : OpenRead(i)
  \/ \E p \in Files, c \in Contents : ExternalWrite(p, c)
  \/ \E p \in Files : ExternalDelete(p)
  \/ DebounceFire
  \/ \E i \in 1..MaxInFlight : ReloadRead(i)
  \/ HandleSetDirty
  \/ HandleSaveFile
  \/ \E i \in 1..MaxInFlight, ok \in BOOLEAN : WriteDone(i, ok)
  \/ HandleOpenDroppedFile
  \/ HandleOpenFileAfterSave
  \/ \E ch \in Choices : CloseRequest(ch)
  \/ \E ch \in Choices : HandleWindowClose(ch)
  \/ \E c \in Contents : Edit(c)
  \/ ToggleViewSource
  \/ ToggleSplitView
  \/ ResumeParsed
  \/ PreviewFire
  \/ \E c \in Contents : StalePreviewFire(c)
  \/ SaveFile
  \/ AutoSaveFire
  \/ RecvSaveBeforeOpen
  \/ RecvSaveAndClose
  \/ RecvSaveReply
  \/ RecvFileOpened
  \/ \E p \in OpenInputs : Drop(p)
  \/ RecvDropReply
  \/ RecvFileChanged
  \/ RecvNotice
  \/ ConflictReload
  \/ ConflictKeep

Spec == Init /\ [][Next]_vars

\* One user working in source view on files nobody else touches: opening
\* (menu, recent files, OS, command line), toggling source / rendered, typing,
\* autosave, closing, with every handler these reach. Runs are one gesture
\* longer than those of Spec.
NextSourceEditing ==
  \/ \E p \in OpenInputs, ch \in Choices : OpenFile(p, ch)
  \/ \E i \in 1..MaxInFlight : OpenStat(i)
  \/ \E i \in 1..MaxInFlight : OpenRead(i)
  \/ DebounceFire
  \/ \E i \in 1..MaxInFlight : ReloadRead(i)
  \/ HandleSetDirty
  \/ HandleSaveFile
  \/ \E i \in 1..MaxInFlight, ok \in BOOLEAN : WriteDone(i, ok)
  \/ HandleOpenFileAfterSave
  \/ \E ch \in Choices : CloseRequest(ch)
  \/ \E ch \in Choices : HandleWindowClose(ch)
  \/ \E c \in Contents : Edit(c)
  \/ ToggleViewSource
  \/ AutoSaveFire
  \/ RecvSaveBeforeOpen
  \/ RecvSaveAndClose
  \/ RecvSaveReply
  \/ RecvFileOpened
  \/ RecvFileChanged
  \/ RecvNotice

InitSourceEditing == InitWith(MaxUserDeep, 0) /\ AuxInit
SpecSourceEditing == InitSourceEditing /\ [][NextSourceEditing]_vars

\* One user who only reads: opening files and closing the window while other
\* programs rewrite and delete the files, with the watcher, the debounce
\* timer, reloadCurrentFile and the renderer's handlers of what they send.
\* Up to MaxReads reloadCurrentFile calls may be suspended in fs.readFile.
NextWatching ==
  \/ \E p \in OpenInputs, ch \in Choices : OpenFile(p, ch)
  \/ \E i \in 1..MaxInFlight : OpenStat(i)
  \/ \E i \in 1..MaxInFlight : OpenRead(i)
  \/ \E p \in Files, c \in Contents : ExternalWrite(p, c)
  \/ \E p \in Files : ExternalDelete(p)
  \/ DebounceFire
  \/ \E i \in 1..MaxReads : ReloadRead(i)
  \/ \E ch \in Choices : CloseRequest(ch)
  \/ RecvFileOpened
  \/ RecvFileChanged
  \/ RecvNotice

InitWatching == InitWithReads(MaxOpens, MaxChanges, MaxReads) /\ AuxInit
SpecWatching == InitWatching /\ [][NextWatching]_vars


\* ------------------------------------------------------------------------
\* Diagram rendering: renderMermaid, processMermaidQueue, createMermaidWindow
\* ------------------------------------------------------------------------

\* Map.set / Map.delete
With(f, id, v) == [i \in DOMAIN f \cup {id} |-> IF i = id THEN v ELSE f[i]]
Without(f, id) == [i \in DOMAIN f \ {id} |-> f[i]]

\* What renderDiagram returns for a code, and what the promise of the request
\* is settled with.
ResultKinds == {"svgObject", "string", "errorObject", "invalid", "rejected"}
SettledWith(kind, code) ==
  IF kind \in {"svgObject", "string"} THEN "svg:" \o code
  ELSE IF kind = "invalid" THEN "error:Invalid mermaid result"
  ELSE "error"

\* resolve / reject of the promise of request id: a promise settles once.
Settle(id, v) ==
  IF mermaidPromise[id] = "pending" THEN [mermaidPromise EXCEPT ![id] = v] ELSE mermaidPromise

\* processMermaidQueue(): one renderDiagram call per pending request, when the
\* window exists and is ready.
processMermaidQueue(ready, window, pending) ==
  IF ready /\ window
  THEN [i \in RequestIds |-> IF i \in DOMAIN pending THEN mermaidCalls[i] + 1 ELSE mermaidCalls[i]]
  ELSE mermaidCalls
\* Variant: the queue is walked from the newest request to the oldest.
RECURSIVE MapKeysNewestFirst(_)
MapKeysNewestFirst(pending) ==
  IF DOMAIN pending = {} THEN <<>>
  ELSE LET id == CHOOSE i \in DOMAIN pending : \A j \in DOMAIN pending : i >= j
       IN <<id>> \o MapKeysNewestFirst(Without(pending, id))

\* The keys of the Map as for...of visits them: in insertion order, which is
\* the order of the request ids (mermaidRequestId++ precedes every set).
RECURSIVE MapKeys(_)
MapKeys(pending) ==
  IF DOMAIN pending = {} THEN <<>>
  ELSE LET id == CHOOSE i \in DOMAIN pending : \A j \in DOMAIN pending : i <= j
       IN <<id>> \o MapKeys(Without(pending, id))

\* The renderDiagram calls of processMermaidQueue(), in the order made.
Dispatch(ready, window, pending) ==
  IF ready /\ window THEN mermaidDispatched \o MapKeys(pending) ELSE mermaidDispatched

CanCall(ready, window, pending) ==
  (ready /\ window) => \A i \in DOMAIN pending : mermaidCalls[i] < MaxCalls

\* Variant: renderMermaid without its timeout
ArmTimeoutNever(id) == mermaidTimers
\* setTimeout(..., 10000) in renderMermaid
ArmTimeout(id) == mermaidTimers \cup {id}

\* Variant: the result is handed to the oldest pending request
ResultTargetOldest(id) ==
  IF DOMAIN mermaidPendingRequests = {} THEN id
  ELSE CHOOSE i \in DOMAIN mermaidPendingRequests : \A j \in DOMAIN mermaidPendingRequests : i <= j
\* The request a result settles: the requestId captured by the .then closure.
ResultTarget(id) == id

\* renderMermaid(code)
RenderMermaid(code) ==
  /\ mermaidRequestId < MaxRequests
  /\ LET id == mermaidRequestId
         pending == With(mermaidPendingRequests, id, code)
     IN /\ mermaidRequestId' = id + 1
        /\ mermaidPendingRequests' = pending
        /\ mermaidTimers' = ArmTimeout(id)
        /\ mermaidPromise' = [mermaidPromise EXCEPT ![id] = "pending"]
        /\ mermaidCode' = [mermaidCode EXCEPT ![id] = code]
        /\ IF ~mermaidWindow
           THEN /\ mermaidWindow' = TRUE
                /\ mermaidLoading' = TRUE
                /\ UNCHANGED <<mermaidCalls, mermaidDispatched>>
           ELSE /\ CanCall(mermaidReady, TRUE, pending)
                /\ mermaidCalls' = processMermaidQueue(mermaidReady, TRUE, pending)
                /\ mermaidDispatched' = Dispatch(mermaidReady, TRUE, pending)
                /\ UNCHANGED <<mermaidWindow, mermaidLoading>>
  /\ UNCHANGED <<mermaidReady, mermaidInits, mermaidLate, mermaidRest>>

\* 'did-finish-load': the initialisation script is injected.
MermaidDidFinishLoad ==
  /\ mermaidWindow /\ mermaidLoading
  /\ mermaidInits < MaxInits
  /\ mermaidLoading' = FALSE
  /\ mermaidInits' = mermaidInits + 1
  /\ UNCHANGED <<mermaidWindow, mermaidReady, mermaidPendingRequests, mermaidRequestId,
                 mermaidTimers, mermaidCalls, mermaidPromise, mermaidCode, mermaidLate, mermaidDispatched, mermaidRest>>

\* The initialisation script finished: .then sets mermaidReady and processes
\* the queue.
MermaidInitDone ==
  /\ mermaidInits > 0
  /\ mermaidInits' = mermaidInits - 1
  /\ mermaidReady' = TRUE
  /\ CanCall(TRUE, mermaidWindow, mermaidPendingRequests)
  /\ mermaidCalls' = processMermaidQueue(TRUE, mermaidWindow, mermaidPendingRequests)
  /\ mermaidDispatched' = Dispatch(TRUE, mermaidWindow, mermaidPendingRequests)
  /\ UNCHANGED <<mermaidWindow, mermaidPendingRequests, mermaidRequestId, mermaidLoading,
                 mermaidTimers, mermaidPromise, mermaidCode, mermaidLate, mermaidRest>>

\* The initialisation script failed: .catch only logs.
MermaidInitFailed ==
  /\ mermaidInits > 0
  /\ mermaidInits' = mermaidInits - 1
  /\ UNCHANGED <<mermaidWindow, mermaidReady, mermaidPendingRequests, mermaidRequestId,
                 mermaidLoading, mermaidTimers, mermaidCalls, mermaidPromise, mermaidCode,
                 mermaidLate, mermaidDispatched, mermaidRest>>

\* mermaidWindow.on('closed'). Scripts and calls running in the closed window
\* may still complete, fail, or never answer.
MermaidWindowClosed ==
  /\ mermaidWindow
  /\ mermaidWindow' = FALSE
  /\ mermaidReady' = FALSE
  /\ mermaidLoading' = FALSE
  /\ UNCHANGED <<mermaidPendingRequests, mermaidRequestId, mermaidInits, mermaidTimers,
                 mermaidCalls, mermaidPromise, mermaidCode, mermaidLate, mermaidDispatched, mermaidRest>>

\* A renderDiagram call for request id completes: .then / .catch of
\* processMermaidQueue.
MermaidResult(id, kind) ==
  /\ mermaidCalls[id] > 0
  /\ mermaidCalls' = [mermaidCalls EXCEPT ![id] = @ - 1]
  /\ mermaidPendingRequests' = Without(mermaidPendingRequests, ResultTarget(id))
  /\ mermaidPromise' = Settle(ResultTarget(id), SettledWith(kind, mermaidCode[id]))
  /\ mermaidLate' = IF mermaidPromise[id] # "pending" THEN mermaidLate \cup {id} ELSE mermaidLate
  /\ UNCHANGED <<mermaidWindow, mermaidReady, mermaidRequestId, mermaidLoading, mermaidInits,
                 mermaidTimers, mermaidCode, mermaidDispatched, mermaidRest>>

\* The 10 s timer of request id fires.
MermaidTimeout(id) ==
  /\ id \in mermaidTimers
  /\ mermaidTimers' = mermaidTimers \ {id}
  /\ IF id \in DOMAIN mermaidPendingRequests
     THEN /\ mermaidPendingRequests' = Without(mermaidPendingRequests, id)
          /\ mermaidPromise' = Settle(id, "error:Mermaid render timeout")
     ELSE UNCHANGED <<mermaidPendingRequests, mermaidPromise>>
  /\ UNCHANGED <<mermaidWindow, mermaidReady, mermaidRequestId, mermaidLoading, mermaidInits,
                 mermaidCalls, mermaidCode, mermaidLate, mermaidDispatched, mermaidRest>>

NextMermaid ==
  \/ \E code \in Codes : RenderMermaid(code)
  \/ MermaidDidFinishLoad
  \/ MermaidInitDone
  \/ MermaidInitFailed
  \/ MermaidWindowClosed
  \/ \E id \in RequestIds, kind \in ResultKinds : MermaidResult(id, kind)
  \/ \E id \in RequestIds : MermaidTimeout(id)

SpecMermaid == Init /\ [][NextMermaid]_vars

\* Timers of the event loop fire.
SpecMermaidLive == SpecMermaid /\ \A id \in RequestIds : WF_vars(MermaidTimeout(id))

\* ------------------------------------------------------------------------
\* Diagrams in the renderer: renderMermaidInContainer
\* ------------------------------------------------------------------------
\* How window.inkwell.renderMermaid(code) settles: with an SVG that
\* sanitizeSvg accepts, with one it refuses, with an empty string, or
\* rejected because the request timed out or the isolated context failed.
DiagramOutcomes == {"svg", "badSvg", "empty", "timeout", "contextError"}
Rejections == {"timeout", "contextError"}
DiagramDocs == UNION {[1..n -> Codes] : n \in 1..MaxDiagrams}

\* err.message of a rejection.
ErrMessage(outcome) ==
  IF outcome = "timeout" THEN "Mermaid render timeout" ELSE "Failed to render diagram"

\* mermaidEl.innerHTML after the try / catch of one iteration.
MermaidElAfter(el, outcome) ==
  IF outcome = "svg" THEN <<"svg", el.source>>
  ELSE IF outcome = "badSvg" THEN <<"mermaid-error", "Invalid SVG output">>
  ELSE IF outcome = "empty" THEN el.mermaid
  ELSE <<"mermaid-error", "Mermaid error: " \o ErrMessage(outcome), el.source>>

\* Variant: a rejection ends the loop.
LoopAfterUntilRejected(at, outcome, n) ==
  IF outcome \in Rejections \/ at >= n THEN [at |-> n + 1, awaiting |-> FALSE]
  ELSE [at |-> at + 1, awaiting |-> TRUE]

\* The loop after the iteration at container `at` of n: the next container
\* is requested, or the loop ends.
LoopAfter(at, outcome, n) ==
  IF at >= n THEN [at |-> n + 1, awaiting |-> FALSE] ELSE [at |-> at + 1, awaiting |-> TRUE]

\* renderMermaidDiagrams() as renderMarkdown calls it, up to the first await:
\* the first diagram is requested.
RenderMermaidDiagrams ==
  /\ viewMode = "rendered" /\ currentHtml # ""
  /\ diagramLoop.at = 0
  /\ diagramLoop' = [at |-> 1, awaiting |-> TRUE]
  /\ UNCHANGED <<diagramEls, diagramRest>>

\* The awaited renderMermaid call settles: the iteration finishes and the
\* loop goes on.
DiagramSettled(outcome) ==
  /\ diagramLoop.awaiting
  /\ diagramEls' = [diagramEls EXCEPT ![diagramLoop.at].mermaid =
                                         MermaidElAfter(diagramEls[diagramLoop.at], outcome)]
  /\ diagramLoop' = LoopAfter(diagramLoop.at, outcome, Len(diagramEls))
  /\ UNCHANGED diagramRest

\* A document with diagrams is opened, shown and edited while its diagrams
\* are rendered.
NextDiagrams ==
  \/ \E p \in OpenInputs, ch \in Choices : OpenFile(p, ch)
  \/ \E i \in 1..MaxInFlight : OpenStat(i)
  \/ \E i \in 1..MaxInFlight : OpenRead(i)
  \/ RecvFileOpened
  \/ RecvNotice
  \/ ToggleViewSource
  \/ \E c \in Contents : Edit(c)
  \/ HandleSetDirty
  \/ RenderMermaidDiagrams
  \/ \E outcome \in DiagramOutcomes : DiagramSettled(outcome)

InitDiagrams ==
  /\ InitWith(MaxDiagramGestures, 0) /\ MermaidMainInit /\ SearchInit(<<>>)
  /\ CompileInit([type |-> "space"]) /\ SvgInit(NoSvg)
  /\ \E codes \in DiagramDocs : DiagramInit(codes)
SpecDiagrams == InitDiagrams /\ [][NextDiagrams]_vars


\* ------------------------------------------------------------------------
\* Find in document: performSearch, processChunk, clearSearch, closeSearch
\* ------------------------------------------------------------------------

\* Texts are sequences of UTF-16 code units, as String indexes them.
\* LATIN CAPITAL LETTER I WITH DOT ABOVE, and the COMBINING DOT ABOVE of its
\* lower case form.
DottedI == "U+0130"
CombiningDot == "U+0307"
ParaTexts == {<<"a", "b">>, <<"A", "b", "a", "b">>, <<"b", "a">>, <<DottedI, "a", "b">>}
Queries == {<<"a", "b">>, <<"b", "a">>}
\* What can be typed into the search field: a query, one character, nothing.
Typed == Queries \cup {<<"a">>, <<>>}
Docs == UNION {[1..n -> ParaTexts] : n \in 1..MaxParas}

\* String.prototype.toLowerCase: the Unicode lower case mapping, which maps
\* U+0130 to the two code units "i" U+0307 and every other character of the
\* model to one.
LowerChar(c) == IF c = "A" THEN "a" ELSE IF c = "B" THEN "b" ELSE c
RECURSIVE toLowerCase(_)
toLowerCase(t) ==
  IF t = <<>> THEN <<>>
  ELSE (IF Head(t) = DottedI THEN <<"i", CombiningDot>> ELSE <<LowerChar(Head(t))>>)
       \o toLowerCase(Tail(t))

Min(a, b) == IF a < b THEN a ELSE b

\* String.prototype.indexOf(q, from) and slice(a, b), positions counted from 0.
indexOf(t, q, from) ==
  LET hits == {i \in from..(Len(t) - Len(q)) : SubSeq(t, i + 1, i + Len(q)) = q}
  IN IF hits = {} THEN -1 ELSE CHOOSE i \in hits : \A j \in hits : i <= j
slice(t, a, b) == SubSeq(t, a + 1, Min(b, Len(t)))

\* The mark element processChunk creates: k-th match of scan `scan` in
\* paragraph p.
MarkNode(t, scan, p, k) == [mark |-> TRUE, text |-> t, id |-> <<scan, p, k>>]

\* The fragments processChunk builds for one text node (the while loop and
\* the remaining text), from position lastIndex on.
RECURSIVE Fragments(_, _, _, _, _, _)
Fragments(text, query, lastIndex, scan, p, k) ==
  LET matchIndex == indexOf(toLowerCase(text), toLowerCase(query), lastIndex)
  IN IF matchIndex = -1
     THEN IF lastIndex < Len(text) THEN <<TextNode(slice(text, lastIndex, Len(text)))>> ELSE <<>>
     ELSE (IF matchIndex > lastIndex THEN <<TextNode(slice(text, lastIndex, matchIndex))>> ELSE <<>>)
          \o <<MarkNode(slice(text, matchIndex, matchIndex + Len(query)), scan, p, k)>>
          \o Fragments(text, query, matchIndex + Len(query), scan, p, k + 1)

IsMark(n) == n.mark
Marks(frags) == SelectSeq(frags, IsMark)

\* textContent of a list of nodes.
RECURSIVE TextOf(_)
TextOf(frags) == IF frags = <<>> THEN <<>> ELSE Head(frags).text \o TextOf(Tail(frags))

\* The mark elements of the document, in document order.
RECURSIVE DomMarksFrom(_, _)
DomMarksFrom(dom, p) ==
  IF p > Len(dom) THEN <<>> ELSE Marks(dom[p].frags) \o DomMarksFrom(dom, p + 1)
DomMarks(dom) == DomMarksFrom(dom, 1)

\* The text node a scan holds for paragraph p is still that paragraph's child.
Attached(dom, node) ==
  /\ node.p \in DOMAIN dom
  /\ dom[node.p].gen = node.gen
  /\ Len(dom[node.p].frags) = 1
  /\ ~dom[node.p].frags[1].mark

\* clearSearch() on the document: every mark becomes a text node and
\* parent.normalize() merges the text nodes of its paragraph.
clearSearch(dom) ==
  [p \in DOMAIN dom |->
     IF Marks(dom[p].frags) # <<>>
     THEN [gen |-> dom[p].gen + 1, frags |-> <<TextNode(TextOf(dom[p].frags))>>]
     ELSE dom[p]]

\* The for loop of processChunk over the text nodes i .. endIndex-1 of a scan
\* (counted from 0); st holds the document and searchMatches.
RECURSIVE ProcessNodes(_, _, _, _)
ProcessNodes(st, scan, i, endIndex) ==
  IF i >= endIndex THEN st
  ELSE LET node == scan.nodes[i + 1]
           text == node.text
           frags == Fragments(text, scan.query, 0, scan.id, node.p, 1)
           found == Marks(frags)
       IN ProcessNodes(
            [dom |-> IF found # <<>> /\ Attached(st.dom, node)
                     THEN [st.dom EXCEPT ![node.p].frags = frags]
                     ELSE st.dom,
             matches |-> st.matches \o found,
             cur |-> st.cur,
             count |-> st.count],
            scan, i + 1, endIndex)

\* Variant: the index stops at the ends of the list.
navigateToMatchClamped(index, matches) ==
  IF index < 0 THEN 0
  ELSE IF index >= Len(matches) THEN Len(matches) - 1
  ELSE index

\* navigateToMatch(index): the new currentMatchIndex.
navigateToMatch(index, matches) ==
  IF index < 0 THEN Len(matches) - 1
  ELSE IF index >= Len(matches) THEN 0
  ELSE index

\* navigateToMatch(index): the marks with class 'current' afterwards; idx is
\* currentMatchIndex before the call.
navigateCurrent(index, idx, matches, cur) ==
  LET removed == IF idx >= 0 /\ idx < Len(matches) THEN cur \ {matches[idx + 1].id} ELSE cur
      new == navigateToMatch(index, matches)
  IN  IF new >= 0 /\ new < Len(matches) THEN removed \cup {matches[new + 1].id} ELSE removed

\* updateSearchCount(): the counter text.
updateSearchCount(matches, idx, value) ==
  IF Len(matches) = 0
    THEN (IF value # <<>> THEN <<"0 matches">> ELSE <<>>)
    ELSE <<idx + 1, "of", Len(matches)>>

\* processChunk() of a scan on the state st; idx is currentMatchIndex.
\* Gives the document, the matches, the index, the current marks, the
\* counter text and the scan to reschedule.
processChunk(st, idx, scan) ==
  LET endIndex == Min(scan.currentIndex + CHUNK_SIZE, Len(scan.nodes))
      done == ProcessNodes(st, scan, scan.currentIndex, endIndex)
      more == endIndex < Len(scan.nodes)
      newIdx == IF more \/ done.matches = <<>> THEN idx ELSE navigateToMatch(0, done.matches)
  IN [dom |-> done.dom,
      matches |-> done.matches,
      idx |-> newIdx,
      cur |-> IF more \/ done.matches = <<>> THEN st.cur
              ELSE navigateCurrent(0, idx, done.matches, st.cur),
      count |-> IF more THEN st.count
                ELSE updateSearchCount(done.matches, newIdx, searchInputValue),
      again |-> IF more THEN <<[scan EXCEPT !.currentIndex = endIndex]>> ELSE <<>>]

\* performSearch(query)
performSearch(query) ==
  LET cleared == clearSearch(contentDom)
      scan == [id |-> searchSeq, query |-> query, currentIndex |-> 0,
               nodes |-> [p \in DOMAIN cleared |->
                            [p |-> p, gen |-> cleared[p].gen, text |-> TextOf(cleared[p].frags)]]]
      count == updateSearchCount(<<>>, -1, searchInputValue)
      now == processChunk([dom |-> cleared, matches |-> <<>>, cur |-> {}, count |-> count],
                          -1, scan)
  IN IF query = <<>>
     THEN /\ contentDom' = cleared
          /\ searchMatches' = <<>>
          /\ currentMatchIndex' = -1
          /\ currentMarks' = {}
          /\ searchCount' = count
          /\ searchQuery' = <<>>
          /\ UNCHANGED <<rafQueue, searchSeq>>
     ELSE /\ searchSeq' = searchSeq + 1
          /\ searchQuery' = query
          /\ IF Len(scan.nodes) <= CHUNK_SIZE
             THEN /\ contentDom' = now.dom
                  /\ searchMatches' = now.matches
                  /\ currentMatchIndex' = now.idx
                  /\ currentMarks' = now.cur
                  /\ searchCount' = now.count
                  /\ UNCHANGED rafQueue
             ELSE /\ contentDom' = cleared
                  /\ searchMatches' = <<>>
                  /\ currentMatchIndex' = -1
                  /\ currentMarks' = {}
                  /\ searchCount' = <<"Searching...">>
                  /\ rafQueue' = Append(rafQueue, scan)

\* Cmd+F with the bar hidden: toggleSearch() shows it.
OpenSearch ==
  /\ searchBudget > 0 /\ searchBarHidden
  /\ searchBudget' = searchBudget - 1
  /\ searchBarHidden' = FALSE
  /\ UNCHANGED <<contentDom, searchMatches, currentMatchIndex, currentMarks, searchCount,
                 searchInputValue, searchDebounceTimer, searchIdle, rafQueue, searchSeq,
                 searchQuery, searchOriginal, searchRest>>

\* closeSearch(): Escape, the close button, or Cmd+F with the bar shown.
CloseSearch ==
  /\ searchBudget > 0 /\ ~searchBarHidden
  /\ searchBudget' = searchBudget - 1
  /\ searchBarHidden' = TRUE
  /\ contentDom' = clearSearch(contentDom)
  /\ searchMatches' = <<>>
  /\ currentMatchIndex' = -1
  /\ currentMarks' = {}
  /\ searchCount' = updateSearchCount(<<>>, -1, searchInputValue)
  /\ searchInputValue' = <<>>
  /\ searchQuery' = <<>>
  /\ UNCHANGED <<searchDebounceTimer, searchIdle, rafQueue, searchSeq, searchOriginal, searchRest>>

\* Variant: every input arms the timer.
DebounceAfterInputAny(q) == <<q>>

\* The timer the 'input' listener leaves behind: none for a query of one
\* character, a new one otherwise.
DebounceAfterInput(q) == IF Len(q) > 0 /\ Len(q) < 2 THEN <<>> ELSE <<q>>

\* The 'input' listener of the search field.
SearchInput(q) ==
  /\ searchBudget > 0 /\ ~searchBarHidden
  /\ q # searchInputValue
  /\ searchBudget' = searchBudget - 1
  /\ searchInputValue' = q
  /\ searchDebounceTimer' = DebounceAfterInput(q)
  /\ searchCount' = IF Len(q) > 0 /\ Len(q) < 2 THEN <<"Type 2+ chars">> ELSE searchCount
  /\ UNCHANGED <<contentDom, searchMatches, currentMatchIndex, currentMarks, searchBarHidden,
                 searchIdle, rafQueue, searchSeq, searchQuery, searchOriginal, searchRest>>

\* The 250 ms timer fires: requestIdleCallback(() => performSearch(query)).
SearchDebounceFire ==
  /\ searchDebounceTimer # <<>>
  /\ searchDebounceTimer' = <<>>
  /\ searchIdle' = Append(searchIdle, searchDebounceTimer[1])
  /\ UNCHANGED <<contentDom, searchMatches, currentMatchIndex, currentMarks, searchCount,
                 searchInputValue, searchBarHidden, rafQueue, searchSeq, searchQuery,
                 searchOriginal, searchBudget, searchRest>>

\* The idle callback runs performSearch(query).
SearchIdleRun ==
  /\ searchIdle # <<>>
  /\ searchIdle' = Tail(searchIdle)
  /\ performSearch(Head(searchIdle))
  /\ UNCHANGED <<searchInputValue, searchBarHidden, searchDebounceTimer, searchOriginal,
                 searchBudget, searchRest>>

\* An animation frame runs the processChunk callback scheduled first.
ScanChunk ==
  /\ rafQueue # <<>>
  /\ LET r == processChunk([dom |-> contentDom, matches |-> searchMatches,
                            cur |-> currentMarks, count |-> searchCount],
                           currentMatchIndex, Head(rafQueue))
     IN /\ contentDom' = r.dom
        /\ searchMatches' = r.matches
        /\ currentMatchIndex' = r.idx
        /\ currentMarks' = r.cur
        /\ searchCount' = r.count
        /\ rafQueue' = Tail(rafQueue) \o r.again
  /\ UNCHANGED <<searchInputValue, searchBarHidden, searchDebounceTimer, searchIdle, searchSeq,
                 searchQuery, searchOriginal, searchBudget, searchRest>>

\* nextMatch(): Enter in the search field, or the next button.
NextMatch ==
  /\ ~searchBarHidden
  /\ Len(searchMatches) > 0
  /\ currentMatchIndex' = navigateToMatch(currentMatchIndex + 1, searchMatches)
  /\ currentMarks' = navigateCurrent(currentMatchIndex + 1, currentMatchIndex, searchMatches,
                                     currentMarks)
  /\ searchCount' = updateSearchCount(searchMatches, currentMatchIndex', searchInputValue)
  /\ UNCHANGED <<contentDom, searchMatches, searchInputValue, searchBarHidden,
                 searchDebounceTimer, searchIdle, rafQueue, searchSeq, searchQuery,
                 searchOriginal, searchBudget, searchRest>>

\* prevMatch(): Shift+Enter in the search field, or the previous button.
PrevMatch ==
  /\ ~searchBarHidden
  /\ Len(searchMatches) > 0
  /\ currentMatchIndex' = navigateToMatch(currentMatchIndex - 1, searchMatches)
  /\ currentMarks' = navigateCurrent(currentMatchIndex - 1, currentMatchIndex, searchMatches,
                                     currentMarks)
  /\ searchCount' = updateSearchCount(searchMatches, currentMatchIndex', searchInputValue)
  /\ UNCHANGED <<contentDom, searchMatches, searchInputValue, searchBarHidden,
                 searchDebounceTimer, searchIdle, rafQueue, searchSeq, searchQuery,
                 searchOriginal, searchBudget, searchRest>>

NextSearch ==
  \/ OpenSearch
  \/ NextMatch
  \/ PrevMatch
  \/ CloseSearch
  \/ \E q \in Typed : SearchInput(q)
  \/ SearchDebounceFire
  \/ SearchIdleRun
  \/ ScanChunk

\* contentEl.innerHTML = `<article class="markdown-body">${html}</article>`:
\* every element and text node of the document is a new one.
SetInnerHtml(dom, doc) ==
  LET newest == CHOOSE g \in {dom[p].gen : p \in DOMAIN dom} :
                  \A p \in DOMAIN dom : dom[p].gen <= g
  IN [p \in DOMAIN doc |-> [gen |-> newest + 1, frags |-> <<TextNode(doc[p])>>]]

\* renderMarkdown(html) for a document without diagrams (an external reload,
\* an open, a switch to the rendered view): the content is replaced and
\* clearSearch() runs.
RenderMarkdown(doc) ==
  /\ searchBudget > 0
  /\ searchBudget' = searchBudget - 1
  /\ contentDom' = clearSearch(SetInnerHtml(contentDom, doc))
  /\ searchMatches' = <<>>
  /\ currentMatchIndex' = -1
  /\ currentMarks' = {}
  /\ searchCount' = updateSearchCount(<<>>, -1, searchInputValue)
  /\ searchOriginal' = doc
  /\ UNCHANGED <<searchInputValue, searchBarHidden, searchDebounceTimer, searchIdle, rafQueue,
                 searchSeq, searchQuery, searchRest>>

\* The preview timer of the split editor: previewPane.innerHTML is replaced
\* by the recompiled document.
PreviewUpdate(doc) ==
  /\ searchBudget > 0
  /\ searchBudget' = searchBudget - 1
  /\ contentDom' = SetInnerHtml(contentDom, doc)
  /\ searchOriginal' = doc
  /\ UNCHANGED <<searchMatches, currentMatchIndex, currentMarks, searchCount, searchInputValue,
                 searchBarHidden, searchDebounceTimer, searchIdle, rafQueue, searchSeq,
                 searchQuery, searchRest>>

\* A rendered document of one or more paragraphs and the search bar.
InitSearch ==
  /\ InitWith(0, 0) /\ MermaidInit /\ CompileInit([type |-> "space"]) /\ SvgInit(NoSvg)
  /\ \E doc \in Docs : SearchInit(doc)
SpecSearch == InitSearch /\ [][NextSearch]_vars

\* Find in document while the document is re-rendered.
NextSearchRender ==
  \/ NextSearch
  \/ \E doc \in Docs : RenderMarkdown(doc)
  \/ \E doc \in Docs : PreviewUpdate(doc)

InitSearchRender == InitSearch
SpecSearchRender == InitSearchRender /\ [][NextSearchRender]_vars

\* ------------------------------------------------------------------------
\* The compiler: link targets, escaping and marked's renderer overrides
\* ------------------------------------------------------------------------
\* Strings are sequences of lexical units: each of & < > " ' is a unit of its
\* own, so is each character the URL parser treats specially, and a run of
\* letters is one unit.
HrefUnits == {"javascript", "JavaScript", "http", "mailto", ":", "/", "#", " ", "\t", "x", "\"", "."}
TextUnits == {"<", ">", "\"", "'", "&", "script"}
Letters == {"javascript", "JavaScript", "http", "https", "mailto", "x", "script",
            "a", "p", "pre", "code", "div", "href", "title", "class", "style"}

SeqsUpTo(S, n) == UNION {[1..k -> S] : k \in 0..n}
Hrefs == SeqsUpTo(HrefUnits, MaxHrefLen)
Texts == SeqsUpTo(TextUnits, MaxTextLen)
LinkTexts == {<<>>, <<"x">>, <<"<", "script", ">">>}
Titles == {<<>>, <<"\"", ">", "<">>}

StartsWith(s, prefix) ==
  Len(s) >= Len(prefix) /\ SubSeq(s, 1, Len(prefix)) = prefix

\* escapeHtml of main.js: the five characters become entities.
escapeHtml(text) ==
  [i \in DOMAIN text |->
     CASE text[i] = "&" -> "&amp;"
       [] text[i] = "<" -> "&lt;"
       [] text[i] = ">" -> "&gt;"
       [] text[i] = "\"" -> "&quot;"
       [] text[i] = "'" -> "&#039;"
       [] OTHER -> text[i]]

\* marked's own escape, applied to text tokens.
markedEscape(text) ==
  [i \in DOMAIN text |->
     CASE text[i] = "&" -> "&amp;"
       [] text[i] = "<" -> "&lt;"
       [] text[i] = ">" -> "&gt;"
       [] text[i] = "\"" -> "&quot;"
       [] text[i] = "'" -> "&#39;"
       [] OTHER -> text[i]]

\* new URL(href, 'http://example.com'): the parser strips leading and
\* trailing C0 controls and spaces, removes every tab, and reads a scheme
\* when the input starts with a letter and holds only scheme characters up
\* to its first colon; scheme letters are lowercased.
IsBlank(u) == u \in {" ", "\t"}
FirstInk(s) == IF \E i \in DOMAIN s : ~IsBlank(s[i])
                 THEN CHOOSE i \in DOMAIN s : ~IsBlank(s[i]) /\ \A j \in 1..(i - 1) : IsBlank(s[j])
                 ELSE Len(s) + 1
LastInk(s) == IF \E i \in DOMAIN s : ~IsBlank(s[i])
                THEN CHOOSE i \in DOMAIN s : ~IsBlank(s[i]) /\ \A j \in (i + 1)..Len(s) : IsBlank(s[j])
                ELSE 0
NotTab(u) == u # "\t"
UrlInput(href) == SelectSeq(SubSeq(href, FirstInk(href), LastInk(href)), NotTab)
LowerUnit(u) == IF u = "JavaScript" THEN "javascript" ELSE u
ColonAt(s) == IF \E i \in DOMAIN s : s[i] = ":"
                THEN CHOOSE i \in DOMAIN s : s[i] = ":" /\ \A j \in 1..(i - 1) : s[j] # ":"
                ELSE 0
Scheme(href) ==
  LET s == UrlInput(href)
      c == ColonAt(s)
  IN  IF c > 1 /\ s[1] \in Letters /\ \A j \in 1..(c - 1) : s[j] \in Letters \cup {"."}
        THEN [j \in 1..(c - 1) |-> LowerUnit(s[j])]
        ELSE <<>>
SlashRun(s) == IF \E i \in DOMAIN s : s[i] # "/"
                 THEN (CHOOSE i \in DOMAIN s : s[i] # "/" /\ \A j \in 1..(i - 1) : s[j] = "/") - 1
                 ELSE Len(s)
HostEnd(s) == IF \E i \in DOMAIN s : s[i] \in {"/", "#"}
                THEN (CHOOSE i \in DOMAIN s : s[i] \in {"/", "#"} /\ \A j \in 1..(i - 1) : s[j] \notin {"/", "#"}) - 1
                ELSE Len(s)
\* A special scheme followed by // needs a host; an empty host, a space in
\* the host or a port that is not a number makes the constructor throw.
UrlThrows(href) ==
  LET s == UrlInput(href)
      c == ColonAt(s)
      rest == SubSeq(s, c + 1, Len(s))
      auth == SubSeq(rest, SlashRun(rest) + 1, Len(rest))
      host == SubSeq(auth, 1, HostEnd(auth))
      p == ColonAt(host)
  IN  /\ Scheme(href) \in {<<"http">>, <<"https">>}
      /\ SlashRun(rest) >= 2
      /\ \/ host = <<>>
         \/ \E i \in DOMAIN host : host[i] = " "
         \/ p = 1
         \/ p > 1 /\ p < Len(host)
BaseProtocol == <<"http">>
UrlProtocol(href) == IF Scheme(href) = <<>> THEN BaseProtocol ELSE Scheme(href)

ALLOWED_LINK_SCHEMES == {<<"http">>, <<"https">>, <<"mailto">>}

\* Variant: the scheme is read off the raw text, without the URL parser.
sanitizeLinkHrefRaw(href) ==
  IF href = <<>> THEN <<>>
  ELSE IF ColonAt(href) > 1 /\ SubSeq(href, 1, ColonAt(href) - 1) \notin ALLOWED_LINK_SCHEMES
            /\ \A j \in 1..(ColonAt(href) - 1) : href[j] \in Letters
         THEN <<>>
         ELSE href

\* sanitizeLinkHref of main.js; <<>> is its '' result.
sanitizeLinkHref(href) ==
  IF href = <<>> THEN <<>>
  ELSE IF \/ StartsWith(href, <<"/">>) \/ StartsWith(href, <<"#">>)
          \/ StartsWith(href, <<".", "/">>) \/ StartsWith(href, <<".", ".", "/">>)
         THEN href
  ELSE IF UrlThrows(href)
         THEN (IF StartsWith(href, <<"#">>) THEN href ELSE <<>>)
  ELSE IF UrlProtocol(href) \in ALLOWED_LINK_SCHEMES
         THEN href
         ELSE <<>>

\* Variant: marked's stock html renderer, which returns the token's text.
rendererHtmlStock(text) == text

\* renderer.html of main.js.
rendererHtml(text) ==
  <<"<", "pre", ">", "<", "code", ">">> \o escapeHtml(text)
    \o <<"<", "/", "code", ">", "<", "/", "pre", ">">>

\* marked's lexer on a run of inline source: a complete tag is an html
\* token, anything else is text.
IsHtml(text) ==
  Len(text) >= 3 /\ text[1] = "<" /\ text[2] \in Letters /\ text[3] = ">"
InlineTokens(text) ==
  IF text = <<>> THEN <<>>
  ELSE IF IsHtml(text) THEN <<[type |-> "html", text |-> text]>>
  ELSE <<[type |-> "text", text |-> text]>>

\* this.parser.parseInline for html and text tokens.
RECURSIVE parseInline(_)
parseInline(tokens) ==
  IF tokens = <<>> THEN <<>>
  ELSE (IF Head(tokens).type = "html"
          THEN rendererHtml(Head(tokens).text)
          ELSE markedEscape(Head(tokens).text))
       \o parseInline(Tail(tokens))

\* renderer.link of main.js, called with a token object.
rendererLink(token) ==
  LET sanitizedHref == sanitizeLinkHref(token.href)
      escapedTitle == IF token.title = <<>> THEN <<>>
                      ELSE <<" ", "title", "=", "\"">> \o escapeHtml(token.title) \o <<"\"">>
  IN  IF sanitizedHref = <<>>
        THEN escapeHtml(IF token.text # <<>> THEN token.text ELSE token.href)
        ELSE <<"<", "a", " ", "href", "=", "\"">> \o escapeHtml(sanitizedHref) \o <<"\"">>
               \o escapedTitle \o <<">">>
               \o parseInline(InlineTokens(token.text))
               \o <<"<", "/", "a", ">">>

\* highlight.js escapes the code it is given (language 'plaintext').
hljsHighlight(code) ==
  [i \in DOMAIN code |->
     CASE code[i] = "&" -> "&amp;"
       [] code[i] = "<" -> "&lt;"
       [] code[i] = ">" -> "&gt;"
       [] code[i] = "\"" -> "&quot;"
       [] code[i] = "'" -> "&#x27;"
       [] OTHER -> code[i]]

\* markedHighlight's walkTokens step: a code token whose highlighted text
\* differs from its text takes the highlighted text and is flagged escaped.
Highlighted(token) ==
  IF hljsHighlight(token.text) # token.text
    THEN [token EXCEPT !.text = hljsHighlight(token.text), !.escaped = TRUE]
    ELSE token

\* renderer.code of main.js: the mermaid container, or marked's own renderer.
rendererCode(code) ==
  IF code.lang = "mermaid"
    THEN <<"<", "div", " ", "class", "=", "\"", "mermaid-container", "\"", ">",
           "<", "pre", " ", "class", "=", "\"", "mermaid-source", "\"", " ",
           "style", "=", "\"", "display:none;", "\"", ">">>
         \o escapeHtml(code.text)
         \o <<"<", "/", "pre", ">", "<", "div", " ", "class", "=", "\"", "mermaid", "\"", ">">>
         \o escapeHtml(code.text)
         \o <<"<", "/", "div", ">", "<", "/", "div", ">">>
    ELSE <<"<", "pre", ">", "<", "code", ">">>
         \o (IF code.escaped THEN code.text ELSE markedEscape(code.text))
         \o <<"\n", "<", "/", "code", ">", "<", "/", "pre", ">", "\n">>

Paragraph_(inner) == <<"<", "p", ">">> \o inner \o <<"<", "/", "p", ">", "\n">>

\* marked.parse, as parseMarkdown of main.js calls it, on a source made of
\* one construct.
markedParse(token) ==
  CASE token.type = "space" -> <<>>
    [] token.type = "html" -> rendererHtml(token.text)
    [] token.type = "text" -> Paragraph_(markedEscape(token.text))
    [] token.type = "code" -> rendererCode(Highlighted(token))
    [] token.type = "link" -> Paragraph_(rendererLink(token))

\* The constructs the lexer can hand to the renderer.
CompileInputs ==
  {[type |-> "html", text |-> t] : t \in {x \in SeqsUpTo(TextUnits, MaxHtmlLen) : IsHtml(x)}}
  \cup {[type |-> "text", text |-> t] : t \in {x \in Texts : x # <<>>}}
  \cup {[type |-> "code", lang |-> l, text |-> t, escaped |-> FALSE] :
          l \in {"", "mermaid"}, t \in {x \in Texts : x # <<>>}}
  \cup {[type |-> "link", href |-> h, text |-> t, title |-> ti] :
          h \in Hrefs, t \in LinkTexts, ti \in Titles}

\* ipc 'parse-markdown' / openFile: the compiler runs on the source.
Compile ==
  /\ ~compiled
  /\ compileOutput' = markedParse(compileInput)
  /\ compiled' = TRUE
  /\ UNCHANGED <<compileInput, compileRest>>

NextCompile == Compile

InitCompile ==
  /\ InitWith(0, 0) /\ MermaidInit /\ SearchInit(<<>>) /\ SvgInit(NoSvg)
  /\ \E token \in CompileInputs : CompileInit(token)

SpecCompile == InitCompile /\ [][NextCompile]_vars

\* ------------------------------------------------------------------------
\* sanitizeSvg: the element tree, the denylists and the serializer
\* ------------------------------------------------------------------------
DANGEROUS_SVG_ELEMENTS ==
  {"script", "foreignobject", "iframe", "object", "embed", "use", "image",
   "animate", "animatemotion", "animatetransform", "set"}
\* The listed names that the inputs use; every other listed name starts
\* with "on".
DANGEROUS_SVG_ATTRIBUTES == {"onload", "onclick", "xlink:href"}

SvgTags == {"g", "a", "script", "foreignObject"}
SvgAttrNames == {"onload", "onfoo", "ONLOAD", "xlink:href", "fill"}
ValueUnits == {"javascript", "JavaScript", ":", " "}
SvgValues == SeqsUpTo(ValueUnits, MaxValueLen)
NameUnits == Letters \cup SvgTags \cup SvgAttrNames \cup {"svg", "onclick"}

\* String.prototype.toLowerCase on a name or a value unit.
lowerName(n) ==
  CASE n = "foreignObject" -> "foreignobject"
    [] n = "ONLOAD" -> "onload"
    [] n = "JavaScript" -> "javascript"
    [] OTHER -> n
\* attrName.startsWith('on')
StartsWithOn(n) == n \in {"onload", "onfoo", "onclick"}
\* attr.value.toLowerCase().startsWith('javascript:')
StartsWithJavascript(v) ==
  Len(v) >= 2 /\ lowerName(v[1]) = "javascript" /\ v[2] = ":"

\* The attribute loop of sanitizeElement: the attributes that stay.
KeepsAttribute(attr) ==
  LET attrName == lowerName(attr.n)
  IN  ~ \/ attrName \in DANGEROUS_SVG_ATTRIBUTES
        \/ StartsWithOn(attrName)
        \/ attrName = "href" /\ StartsWithJavascript(attr.v)

\* sanitizeElement: the element as it is left in the tree, <<>> when it was
\* removed.
RECURSIVE sanitizeElement(_), SanitizeChildren(_)
sanitizeElement(el) ==
  IF lowerName(el.tag) \in DANGEROUS_SVG_ELEMENTS
    THEN <<>>
    ELSE <<Element(el.tag, SelectSeq(el.attrs, KeepsAttribute), SanitizeChildren(el.children))>>
SanitizeChildren(children) ==
  IF children = <<>> THEN <<>>
  ELSE sanitizeElement(Head(children)) \o SanitizeChildren(Tail(children))

\* XMLSerializer: attribute values are written between double quotes with
\* & < > " and tabs as references; an element without children is written
\* as an empty-element tag.
xmlEscape(v) ==
  [i \in DOMAIN v |->
     CASE v[i] = "&" -> "&amp;"
       [] v[i] = "<" -> "&lt;"
       [] v[i] = ">" -> "&gt;"
       [] v[i] = "\"" -> "&quot;"
       [] v[i] = "\t" -> "&#9;"
       [] OTHER -> v[i]]
RECURSIVE serializeAttrs(_), serializeToString(_), SerializeChildren(_)
serializeAttrs(attrs) ==
  IF attrs = <<>> THEN <<>>
  ELSE <<" ", Head(attrs).n, "=", "\"">> \o xmlEscape(Head(attrs).v) \o <<"\"">>
       \o serializeAttrs(Tail(attrs))
serializeToString(el) ==
  <<"<", el.tag>> \o serializeAttrs(el.attrs)
    \o (IF el.children = <<>>
          THEN <<"/", ">">>
          ELSE <<">">> \o SerializeChildren(el.children) \o <<"<", "/", el.tag, ">">>)
SerializeChildren(children) ==
  IF children = <<>> THEN <<>>
  ELSE serializeToString(Head(children)) \o SerializeChildren(Tail(children))

\* sanitizeSvg of renderer.js; <<>> is its '' result.
sanitizeSvg(doc) ==
  IF doc.parseError THEN <<>>
  ELSE IF lowerName(doc.root.tag) # "svg" THEN <<>>
  ELSE serializeToString(sanitizeElement(doc.root)[1])

\* The documents DOMParser can hand to the sanitizer: a parse error, or a
\* root with `depth` levels of descendants.
SvgAttrLists ==
  {<<>>} \cup {<<[n |-> n, v |-> <<"x">>]>> : n \in SvgAttrNames}
         \cup {<<[n |-> "href", v |-> v]>> : v \in SvgValues}
SvgLeaves == {Element(t, a, <<>>) : t \in SvgTags, a \in SvgAttrLists}
RECURSIVE SvgTrees(_)
SvgTrees(depth) ==
  IF depth <= 1
    THEN {x \in SvgLeaves : x.tag = "a" \/ x.attrs = <<>>}
    ELSE {Element(t, a, c) : t \in SvgTags, a \in SvgAttrLists,
                             c \in {<<>>} \cup {<<l>> : l \in SvgTrees(depth - 1)}}
SvgRoots(depth) ==
  {Element(t, a, c) : t \in {"svg", "g"},
                      a \in {<<>>, <<[n |-> "onload", v |-> <<"x">>]>>},
                      c \in {<<>>} \cup {<<m>> : m \in SvgTrees(depth)}}
SvgInputs(depth) ==
  {NoSvg} \cup {[parseError |-> FALSE, root |-> r] : r \in SvgRoots(depth)}

\* renderMermaidInContainer: the diagram is sanitized.
SanitizeSvg ==
  /\ ~svgDone
  /\ svgOutput' = sanitizeSvg(svgInput)
  /\ svgDone' = TRUE
  /\ UNCHANGED <<svgInput, svgRest>>

NextSvg == SanitizeSvg

InitSvg ==
  /\ InitWith(0, 0) /\ MermaidInit /\ SearchInit(<<>>) /\ CompileInit([type |-> "space"])
  /\ \E doc \in SvgInputs(MaxDepth) : SvgInit(doc)

SpecSvg == InitSvg /\ [][NextSvg]_vars

\* What a browser makes of the compiler's output: the tags it opens or
\* closes, with their attributes, and the text it shows.
Decode(u) ==
  CASE u = "&amp;" -> "&"
    [] u = "&lt;" -> "<"
    [] u = "&gt;" -> ">"
    [] u = "&quot;" -> "\""
    [] u \in {"&#039;", "&#39;", "&#x27;"} -> "'"
    [] u = "&#9;" -> "\t"
    [] OTHER -> u

TextItem(u) == [kind |-> "text", name |-> Decode(u), close |-> FALSE, attrs |-> <<>>]
TagItem(n, c) == [kind |-> "tag", name |-> n, close |-> c, attrs |-> <<>>]

RECURSIVE ParseData(_, _), ParseTag(_, _, _), ParseValue(_, _, _, _, _)
ParseData(out, i) ==
  IF i > Len(out) THEN <<>>
  ELSE IF out[i] = "<" /\ i + 1 <= Len(out) /\ out[i + 1] \in NameUnits
         THEN ParseTag(out, i + 2, TagItem(out[i + 1], FALSE))
  ELSE IF out[i] = "<" /\ i + 2 <= Len(out) /\ out[i + 1] = "/" /\ out[i + 2] \in NameUnits
         THEN ParseTag(out, i + 3, TagItem(out[i + 2], TRUE))
  ELSE <<TextItem(out[i])>> \o ParseData(out, i + 1)
ParseTag(out, i, tag) ==
  IF i > Len(out) THEN <<>>
  ELSE IF out[i] = ">" THEN <<tag>> \o ParseData(out, i + 1)
  ELSE IF out[i] \in NameUnits /\ i + 2 <= Len(out) /\ out[i + 1] = "=" /\ out[i + 2] = "\""
         THEN ParseValue(out, i + 3, tag, out[i], <<>>)
  ELSE ParseTag(out, i + 1, tag)
ParseValue(out, i, tag, n, v) ==
  IF i > Len(out) THEN <<>>
  ELSE IF out[i] = "\""
         THEN ParseTag(out, i + 1, [tag EXCEPT !.attrs = Append(@, [n |-> n, v |-> v])])
  ELSE ParseValue(out, i + 1, tag, n, Append(v, Decode(out[i])))

Rendered(out) == ParseData(out, 1)
IsOpenTag(item) == item.kind = "tag" /\ ~item.close
IsTextItem(item) == item.kind = "text"
OpenTags(out) == SelectSeq(Rendered(out), IsOpenTag)
ShownText(out) == LET t == SelectSeq(Rendered(out), IsTextItem)
                  IN  SelectSeq([i \in DOMAIN t |-> t[i].name], LAMBDA u : u # "\n")
Anchors(out) == SelectSeq(OpenTags(out), LAMBDA item : item.name = "a")
AttrOf(item, n) == LET a == SelectSeq(item.attrs, LAMBDA x : x.n = n)
                   IN  IF a = <<>> THEN <<>> ELSE a[1].v



\* ------------------------------------------------------------------------
\* Properties
\* ------------------------------------------------------------------------

\* Steps, recognised by what they consume.
SaveFileHandled == r2m # <<>> /\ Head(r2m).t = "save-file" /\ r2m' = Tail(r2m)
FileChangedHandled == m2r # <<>> /\ Head(m2r).t = "file-changed" /\ m2r' = Tail(m2r)
ReloadClicked == BannerVisible /\ bannerHidden' /\ lastStep' = "reload"
KeepClicked == BannerVisible /\ bannerHidden' /\ lastStep' = "keep"
\* The text the user is editing, or the document's text when no editor is live.
LiveText == IF editor # NoEditor THEN editor ELSE currentRaw

\* C1: save-file writes only to the file that is current when the request is
\* handled: with no current file, or a requested path that resolves to another
\* file, the handler answers with an error, starts no write and leaves the
\* disk alone; otherwise the one write it starts goes to the current file.
C1_SaveOnlyToCurrentFile ==
  [][SaveFileHandled =>
       /\ disk' = disk
       /\ IF mCurrentFilePath # Null /\ PathResolve(Head(r2m).p) = mCurrentFilePath
          THEN /\ Len(writes') = Len(writes) + 1
               /\ writes'[Len(writes')].p = mCurrentFilePath
               /\ writes'[Len(writes')].c = Head(r2m).c
          ELSE /\ writes' = writes
               /\ m2r' # <<>>
               /\ m2r'[Len(m2r')].t = "save-reply"
               /\ ~m2r'[Len(m2r')].ok]_vars

\* A save to a path that is no longer the current file was refused.
C1_Witness ==
  /\ lastStep = "refused"
  /\ mCurrentFilePath # Null
  /\ \E i \in DOMAIN m2r : /\ m2r[i].t = "save-reply"
                           /\ ~m2r[i].ok
                           /\ PathResolve(m2r[i].p) # mCurrentFilePath
  /\ writes = <<>>

\* C2: a file-changed notification handled while dirty leaves rawText,
\* compiledHtml, the editable buffer and the dirty flag unchanged; the external
\* version is held in the pending record and the conflict banner is shown.
C2_ConflictKeepsDocument ==
  [][(FileChangedHandled /\ isDirty) =>
       /\ currentRaw' = currentRaw
       /\ currentHtml' = currentHtml
       /\ editor' = editor
       /\ shown' = shown
       /\ isDirty' = isDirty
       /\ pendingExternalRaw' = Head(m2r).c
       /\ pendingExternalHtml' = Head(m2r).h
       /\ BannerVisible']_vars

\* A conflict was raised over an editor whose text differs from the external one.
C2_Witness ==
  /\ lastStep = "conflict"
  /\ isDirty
  /\ BannerVisible
  /\ editor # NoEditor
  /\ pendingExternalRaw # Null
  /\ pendingExternalRaw # editor

\* C3: 'keep' leaves rawText, the buffer and dirty unchanged and discards the
\* record; 'reload' sets rawText and the buffer to the record's external text,
\* compiledHtml to its compilation, dirty to false, and discards the record.
C3_ConflictResolution ==
  [][/\ KeepClicked =>
          /\ currentRaw' = currentRaw
          /\ editor' = editor
          /\ isDirty' = isDirty
          /\ pendingExternalRaw' = Null
          /\ pendingExternalHtml' = Null
     /\ (ReloadClicked /\ pendingExternalHtml # Null) =>
          /\ currentRaw' = pendingExternalRaw
          /\ currentHtml' = parseMarkdown(pendingExternalRaw)
          /\ (viewMode \in {"source", "split"} => editor' = pendingExternalRaw)
          /\ (viewMode \in {"rendered", "split"} => shown' = parseMarkdown(pendingExternalRaw))
          /\ ~isDirty'
          /\ pendingExternalRaw' = Null
          /\ pendingExternalHtml' = Null]_vars

\* 'reload' was clicked with an editor live: the buffer holds the adopted text.
C3_Witness ==
  /\ lastStep = "reload"
  /\ editor # NoEditor
  /\ editor = currentRaw
  /\ currentHtml = parseMarkdown(currentRaw)
  /\ ~isDirty
  /\ pendingExternalRaw = Null

\* C9: a file-changed notification handled while not dirty replaces rawText and
\* compiledHtml by the re-read text and its compilation, the current view shows
\* it, dirty stays false and the conflict record and banner are untouched.
C9_CleanReloadAdopts ==
  [][(FileChangedHandled /\ ~isDirty) =>
       /\ currentRaw' = Head(m2r).c
       /\ currentHtml' = parseMarkdown(Head(m2r).c)
       /\ (viewMode \in {"source", "split"} => editor' = Head(m2r).c)
       /\ (viewMode \in {"rendered", "split"} => shown' = parseMarkdown(Head(m2r).c))
       /\ viewMode' = viewMode
       /\ ~isDirty'
       /\ UNCHANGED conflictVars]_vars

\* An external version was adopted into a live editor.
C9_Witness ==
  /\ lastStep = "adopt"
  /\ ~isDirty
  /\ editor # NoEditor
  /\ editor = currentRaw
  /\ currentHtml = parseMarkdown(currentRaw)
  /\ persisted = currentRaw

\* C10: the document never holds more than one conflict banner, and a
\* file-changed notification handled while dirty with a record pending
\* overwrites the record with the latest external version without creating a
\* second banner.
C10_SingleConflictRecord ==
  [][/\ conflictBanners' <= 1
     /\ (FileChangedHandled /\ isDirty /\ BannerVisible /\ pendingExternalRaw # Null) =>
          /\ pendingExternalRaw' = Head(m2r).c
          /\ pendingExternalHtml' = Head(m2r).h
          /\ conflictBanners' = conflictBanners
          /\ BannerVisible']_vars

\* A second external change arrived while a record was pending.
C10_Witness ==
  /\ lastStep = "conflict-again"
  /\ conflictBanners = 1
  /\ BannerVisible
  /\ isDirty
  /\ pendingExternalRaw # Null

\* The view switched by a toggle (an open also switches to rendered, but it
\* consumes its message).
Toggled(from, to) == viewMode = from /\ viewMode' = to /\ m2r' = m2r
\* The renderer installed an opened file (onFileOpened, or the drop handler).
OpenInstalled ==
  /\ m2r # <<>>
  /\ Head(m2r).t \in {"file-opened", "drop-reply"}
  /\ Head(m2r).ok
  /\ m2r' = Tail(m2r)

\* C4: dirty is true iff there are edits not yet persisted: whenever a file is
\* open and dirty is false, the live text (the editable buffer, or rawText
\* when no buffer is live) is the text last written to or read from the file.
C4_CleanMeansPersisted ==
  (currentFilePath # "" /\ ~isDirty) => LiveText = persisted

\* C5: an open requested while the document is dirty (and the main process
\* knows it) replaces the document only after the user chose Don't Save, or
\* chose Save and the save succeeded.
C5_OpenNeverDiscardsSilently ==
  [][(OpenInstalled /\ Head(m2r).p2 = "dirty" /\ isDirty) =>
       Head(m2r).k \in {"DontSave", "AfterSave"}]_vars

\* No set-dirty message is on its way to the main process and no open is in
\* progress.
MirrorSettled == opens = <<>> /\ \A i \in DOMAIN r2m : r2m[i].t # "set-dirty"

\* C6: the window closes over unsaved edits only after an explicit Don't Save
\* (after a successful save there are no unsaved edits left). Stated for close
\* requests that find every set-dirty message delivered and no open under way.
C6_CloseNeverDiscardsSilently ==
  [][(mainWindow /\ ~mainWindow' /\ MirrorSettled) =>
       (~isDirty \/ lastStep' = "close:DontSave")]_vars

\* C7: after the source -> rendered transition the rendered pane shows the
\* compilation of the buffer's text at the transition, and rawText is that text.
C7_SourceToRenderedRecompiles ==
  [][Toggled("source", "rendered") =>
       /\ currentRaw' = editor
       /\ currentHtml' = parseMarkdown(editor)
       /\ shown' = parseMarkdown(editor)]_vars

\* C8: source -> split, split -> source and split -> rendered commit the
\* buffer: afterwards rawText is the buffer's text at the transition and
\* compiledHtml its compilation.
C8_LeavingEditableCommits ==
  [][(Toggled("source", "split") \/ Toggled("split", "source") \/ Toggled("split", "rendered")) =>
       /\ currentRaw' = editor
       /\ currentHtml' = parseMarkdown(editor)]_vars

AutoSaveRan ==
  /\ lastStep' = "autosave"
  /\ r2m' = Append(r2m, Msg("save-file", currentFilePath, editor, "", "auto", "", FALSE))

\* C16: after an edit in source or split view the autosave timer stays armed
\* until it fires and saves the buffer: while the view stays editable the
\* timer goes away only by firing into the save path, or when the buffer holds
\* nothing unsaved any more.
C16_AutosaveRunsAfterIdle ==
  [][(autoSaveTimer /\ ~autoSaveTimer' /\ viewMode \in {"source", "split"} /\ viewMode' = viewMode) =>
       (AutoSaveRan \/ LiveText' = persisted')]_vars

\* C17: a save requested after the open file vanished (deleted, watch torn
\* down) never completes as a successful write.
C17_NoSaveToVanishedPath ==
  [][\A i \in DOMAIN writes :
       (writes[i].gone /\ writes' = RemoveAt(writes, i)) => disk'[writes[i].p] = disk[writes[i].p]]_vars

\* C12: every diagram request is settled and leaves the pending set no later
\* than its timeout: a pending request always has its timer running and an
\* unsettled promise, and every request made is eventually settled and out of
\* the pending set, whatever the window does.
C12_RequestsSettle ==
  /\ [](\A id \in RequestIds :
          /\ id \in DOMAIN mermaidPendingRequests => id \in mermaidTimers
          /\ id \in DOMAIN mermaidPendingRequests <=> mermaidPromise[id] = "pending")
  /\ \A id \in RequestIds :
       (mermaidPromise[id] = "pending") ~>
         (mermaidPromise[id] \notin {"none", "pending"} /\ id \notin DOMAIN mermaidPendingRequests)

\* One request was answered, the window closed, and the next request timed
\* out while the new window was still loading.
C12_Witness ==
  /\ mermaidPromise[0] = "svg:g1"
  /\ mermaidPromise[1] = "error:Mermaid render timeout"
  /\ mermaidLoading
  /\ mermaidPendingRequests = [i \in {} |-> ""]

\* A result arrived for request id.
MermaidAnswered(id) == mermaidCalls'[id] < mermaidCalls[id]

\* C13: request ids strictly increase and are never reused; a result settles
\* only the request with its id, with the rendering of that request's code,
\* and only while it is pending; settled outcomes never change.
C13_ResultsRoutedById ==
  [][/\ \A id \in RequestIds :
          (mermaidPromise[id] = "none" /\ mermaidPromise'[id] # "none") =>
             /\ id = mermaidRequestId /\ mermaidRequestId' > id
             /\ \A j \in RequestIds : mermaidPromise[j] # "none" => j < id
     /\ \A id \in RequestIds :
          mermaidPromise[id] \notin {"none", "pending"} => mermaidPromise'[id] = mermaidPromise[id]
     /\ \A id \in RequestIds :
          MermaidAnswered(id) =>
             /\ \A j \in RequestIds \ {id} :
                  /\ mermaidPromise'[j] = mermaidPromise[j]
                  /\ (j \in DOMAIN mermaidPendingRequests) = (j \in DOMAIN mermaidPendingRequests')
             /\ mermaidPromise'[id] \in {mermaidPromise[id], "svg:" \o mermaidCode[id], "error",
                                         "error:Invalid mermaid result"}
             /\ id \notin DOMAIN mermaidPendingRequests']_vars

\* Request 0 timed out and was answered afterwards; request 1, made later with
\* another code, got its own rendering.
C13_Witness ==
  /\ 0 \in mermaidLate
  /\ mermaidPromise[0] = "error:Mermaid render timeout"
  /\ mermaidCode[0] = "g1"
  /\ mermaidPromise[1] = "svg:g2"

\* The scan started last has run all its chunks.
LastScanDone == \A i \in DOMAIN rafQueue : rafQueue[i].id # searchSeq - 1

\* C14: once a new query has started, a scan of an earlier query does nothing
\* more: every highlight in the document and every entry of the match list is
\* a match the latest scan made for the latest query, and when that scan is
\* complete the match list is the document's highlights in document order.
C14_SupersededScanAbandoned ==
  searchQuery # <<>> =>
    /\ \A i \in DOMAIN searchMatches :
         /\ searchMatches[i].id[1] = searchSeq - 1
         /\ toLowerCase(searchMatches[i].text) = toLowerCase(searchQuery)
    /\ \A i \in DOMAIN DomMarks(contentDom) : DomMarks(contentDom)[i].id[1] = searchSeq - 1
    /\ LastScanDone => searchMatches = DomMarks(contentDom)

\* textContent of the whole document, paragraph by paragraph.
TextContent(dom) == [p \in DOMAIN dom |-> TextOf(dom[p].frags)]

\* C15: after the query was cleared or the search closed, and until another
\* search starts, the document holds no highlight, its text content and
\* structure are those before the search, the match list is empty and no
\* match is active; also when a chunked scan was in flight at the clear.
C15_SearchClearRoundTrip ==
  searchQuery = <<>> =>
    /\ DomMarks(contentDom) = <<>>
    /\ TextContent(contentDom) = searchOriginal
    /\ \A p \in DOMAIN contentDom : Len(contentDom[p].frags) = 1
    /\ searchMatches = <<>>
    /\ currentMatchIndex = -1

\* ------------------------------------------------------------------------
\* Links and raw HTML in the compiler's output
\* ------------------------------------------------------------------------
LinkCompiled == compiled /\ compileInput.type = "link"
LinkSchemesAllowed == {<<"http">>, <<"https">>, <<"mailto">>}
\* The target names a scheme, and the scheme is not an allowed one; a
\* fragment or a relative path names none.
Disallowed(href) == Scheme(href) # <<>> /\ Scheme(href) \notin LinkSchemesAllowed
WellFormed(href) == href # <<>> /\ ~UrlThrows(href)
\* The output is a paragraph of text and nothing else, and the text shown is
\* the link's text (its target when it has no text).
DegradesToText(token, out) ==
  /\ \A i \in DOMAIN OpenTags(out) : OpenTags(out)[i].name = "p"
  /\ \A i \in DOMAIN OpenTags(out) : OpenTags(out)[i].attrs = <<>>
  /\ ShownText(out) = (IF token.text # <<>> THEN token.text ELSE token.href)
\* The output holds one anchor, its href attribute is written as the escaped
\* target and a browser reads the target back from it.
EmitsAnchor(token, out) ==
  /\ Len(Anchors(out)) = 1
  /\ AttrOf(Anchors(out)[1], "href") = token.href
  /\ SubSeq(out, 4, 9 + Len(token.href)) =
       <<"<", "a", " ", "href", "=", "\"">> \o escapeHtml(token.href)

MarkupNames == {"p", "pre", "code", "a", "div"}
\* Every tag a browser finds in the output is one the compiler wrote, with
\* the attributes the compiler gives it.
OnlyCompilerMarkup(out) ==
  \A i \in DOMAIN Rendered(out) :
    Rendered(out)[i].kind = "tag" =>
      /\ Rendered(out)[i].name \in MarkupNames
      /\ \A j \in DOMAIN Rendered(out)[i].attrs :
           Rendered(out)[i].attrs[j].n \in {"href", "title", "class", "style"}
\* Occurrences of one lexical unit in a string.
RECURSIVE CountOf(_, _)
CountOf(s, u) ==
  IF s = <<>> THEN 0 ELSE (IF Head(s) = u THEN 1 ELSE 0) + CountOf(Tail(s), u)

DenylistedElements ==
  {"script", "foreignObject", "iframe", "object", "embed", "use", "image",
   "animate", "animateMotion", "animateTransform", "set"}
\* No tag of the string is a denylisted element, and no attribute of it is an
\* event handler, an xlink:href or an href that resolves to javascript:.
CleanSvg(out) ==
  \A i \in DOMAIN Rendered(out) :
    Rendered(out)[i].kind = "tag" =>
      /\ Rendered(out)[i].name \notin DenylistedElements
      /\ \A j \in DOMAIN Rendered(out)[i].attrs :
           LET attr == Rendered(out)[i].attrs[j]
           IN  /\ ~StartsWithOn(attr.n)
               /\ attr.n # "xlink:href"
               /\ attr.n = "href" => Scheme(attr.v) # <<"javascript">>

\* C20: sanitizeSvg returns the empty string when the markup fails to parse
\* or its root is not an svg element; otherwise the string it returns holds,
\* at any depth, no denylisted element, no attribute whose name starts with
\* "on", no xlink:href and no href that resolves to a javascript: reference.
C20_SanitizedSvgIsClean ==
  svgDone =>
    IF svgInput.parseError \/ svgInput.root.tag # "svg"
      THEN svgOutput = <<>>
      ELSE svgOutput # <<>> /\ CleanSvg(svgOutput)

\* ------------------------------------------------------------------------
\* Navigation between matches
\* ------------------------------------------------------------------------
ActiveMatches == {i \in DOMAIN searchMatches : searchMatches[i].id \in currentMarks}
ScanCompleted == rafQueue = <<>> /\ searchMatches # <<>>

\* C21: with a non-empty match list whose scan has completed the active index
\* lies in [0, n) and exactly the match at that index is marked current;
\* next moves one forward and from the last match to the first, previous one
\* back and from the first to the last, and the counter then reads
\* "index+1 of n".
C21_NavigationWraps ==
  /\ [](ScanCompleted =>
          /\ currentMatchIndex \in 0..(Len(searchMatches) - 1)
          /\ ActiveMatches = {currentMatchIndex + 1})
  /\ [][/\ (ScanCompleted /\ NextMatch) =>
              /\ currentMatchIndex' = (currentMatchIndex + 1) % Len(searchMatches)
              /\ searchCount' = <<currentMatchIndex' + 1, "of", Len(searchMatches)>>
        /\ (ScanCompleted /\ PrevMatch) =>
              /\ currentMatchIndex' =
                   (currentMatchIndex + Len(searchMatches) - 1) % Len(searchMatches)
              /\ searchCount' = <<currentMatchIndex' + 1, "of", Len(searchMatches)>>]_vars

\* Several matches, the scan is over and the last one is the current one.
C21_Witness ==
  /\ ScanCompleted
  /\ Len(searchMatches) >= 2
  /\ currentMatchIndex = Len(searchMatches) - 1
  /\ searchCount = <<Len(searchMatches), "of", Len(searchMatches)>>

\* ------------------------------------------------------------------------
\* Minimum query length
\* ------------------------------------------------------------------------
\* C22: a query of fewer than 2 characters never triggers a scan: no timer,
\* idle callback or scan carries one, and a scan is only ever started for a
\* query of 2 or more characters.
C22_ShortQueryNeverScans ==
  /\ [](/\ \A i \in DOMAIN searchDebounceTimer : Len(searchDebounceTimer[i]) # 1
        /\ \A i \in DOMAIN searchIdle : Len(searchIdle[i]) # 1
        /\ \A i \in DOMAIN rafQueue : Len(rafQueue[i].query) >= 2)
  /\ [][searchSeq' # searchSeq => Len(searchQuery') >= 2]_vars

\* One character was typed first: the field asks for more and nothing was
\* scheduled or scanned.
C22_Witness ==
  /\ searchInputValue = <<"a">>
  /\ searchCount = <<"Type 2+ chars">>
  /\ searchDebounceTimer = <<>> /\ searchIdle = <<>> /\ rafQueue = <<>>
  /\ searchSeq = 0 /\ searchMatches = <<>>

\* ------------------------------------------------------------------------
\* The file watch
\* ------------------------------------------------------------------------
\* C23: at most one watcher is open, an open watcher watches the current
\* path, every pending reload timeout was armed by the open watcher and is
\* the one debounceTimer holds, and the step of openFile that makes a file
\* current leaves exactly the watcher of that file and no pending timeout:
\* a timeout armed by the previous watch never fires after the switch.
C23_OneWatchOnCurrentPath ==
  /\ [](/\ Cardinality(openWatchers) <= 1
        /\ \A w \in openWatchers : w = mCurrentFilePath /\ w = fileWatcher
        /\ \A t \in reloadTimeouts : t.held /\ t.path \in openWatchers
        /\ debounceTimer <=> reloadTimeouts # {})
  /\ [][\A i \in 1..MaxInFlight :
          (OpenRead(i) /\ disk[opens[i].p] # NoFile) =>
             /\ openWatchers' = {mCurrentFilePath'}
             /\ reloadTimeouts' = {}]_vars

\* /b.md has just become the current file while the window still shows the
\* first content of /a.md, although /a.md was rewritten while it was watched:
\* the timeout that change armed was cancelled by the switch.
C23_Witness ==
  /\ mCurrentFilePath = "/b.md" /\ openWatchers = {"/b.md"}
  /\ reloadTimeouts = {} /\ reads = <<>>
  /\ currentFilePath = "/a.md" /\ currentRaw = "a"
  /\ disk["/a.md"] \notin {"a", NoFile}
  /\ budget.external = MaxChanges - 1
  /\ Len(m2r) = 1 /\ m2r[1].t = "file-opened"

\* ------------------------------------------------------------------------
\* Reconciliation after a change on disk
\* ------------------------------------------------------------------------
\* C26: reconciliations run one at a time: at most one reloadCurrentFile call
\* is suspended in fs.readFile, and a debounce timeout that fires while one
\* is suspended starts no second read.
C26_ReconciliationsOneAtATime ==
  /\ [](Len(reads) <= 1)
  /\ [][(DebounceFire /\ reads # <<>>) => reads' = reads]_vars

\* A 'change' notification for the watched file: another program rewrites the
\* file the open watcher is on.
Notified(p, c) == ExternalWrite(p, c) /\ p \in openWatchers /\ disk[p] # NoFile

\* C27: change notifications that arrive while the debounce timeout is
\* pending are coalesced. A notification starts no read and sends nothing; it
\* leaves exactly one pending timeout, the one it armed; when that timeout
\* fires exactly one read of the current file starts and no timeout is left;
\* and a read that finds the file sends exactly one file-changed with the
\* content on disk.
C27_BurstsCoalesced ==
  /\ [](Cardinality(reloadTimeouts) <= 1)
  /\ [][\A p \in Files, c \in Contents :
          Notified(p, c) =>
            /\ reloadTimeouts' = {Timeout(p, TRUE)}
            /\ reads' = reads /\ m2r' = m2r]_vars
  /\ [][DebounceFire =>
          /\ reloadTimeouts' = {}
          /\ reads' = Append(reads, mCurrentFilePath)]_vars
  /\ [][\A i \in 1..MaxReads :
          (ReloadRead(i) /\ disk[reads[i]] # NoFile) =>
            /\ Len(m2r') = Len(m2r) + 1
            /\ m2r'[Len(m2r')].t = "file-changed"
            /\ m2r'[Len(m2r')].c = disk[reads[i]]
            /\ Len(reads') = Len(reads) - 1]_vars

\* /a.md was rewritten twice while it was shown and watched, the second time
\* back to its first content: one timeout is pending, no read was started and
\* nothing was delivered.
C27_Witness ==
  /\ reloadTimeouts = {Timeout("/a.md", TRUE)}
  /\ reads = <<>> /\ m2r = <<>>
  /\ currentFilePath = "/a.md" /\ currentRaw = "a"
  /\ disk["/a.md"] = "a" /\ disk["/b.md"] = "b"
  /\ budget.external = MaxChanges - 2

\* ------------------------------------------------------------------------
\* The queue of diagram requests
\* ------------------------------------------------------------------------
\* The ids of a set of requests in the order they were submitted.
RECURSIVE SubmissionOrder(_)
SubmissionOrder(ids) ==
  IF ids = {} THEN <<>>
  ELSE LET last == CHOOSE i \in ids : \A j \in ids : j <= i
       IN Append(SubmissionOrder(ids \ {last}), last)

\* C24: a request submitted while mermaidReady is not set is put in the
\* pending queue and no renderDiagram call is made; renderDiagram is only
\* ever called in a step that ends with mermaidReady set; and the step that
\* sets mermaidReady calls renderDiagram once for every queued request, in
\* the order the requests were submitted.
C24_QueuedUntilInitialized ==
  /\ [][\A code \in Codes :
          (RenderMermaid(code) /\ ~mermaidReady) =>
            /\ mermaidRequestId \in DOMAIN mermaidPendingRequests'
            /\ mermaidDispatched' = mermaidDispatched]_vars
  /\ [][mermaidDispatched' # mermaidDispatched => mermaidReady' /\ mermaidWindow']_vars
  /\ [][(MermaidInitDone /\ mermaidWindow) =>
          mermaidDispatched' =
            mermaidDispatched \o SubmissionOrder(DOMAIN mermaidPendingRequests)]_vars

\* Two requests were queued while the window was loading and both were
\* dispatched when the initialisation finished, the older one first.
C24_Witness ==
  /\ mermaidReady
  /\ mermaidDispatched = <<0, 1>>
  /\ mermaidInits = 0
  /\ DOMAIN mermaidPendingRequests = {0, 1}

\* ------------------------------------------------------------------------
\* The autosave timer
\* ------------------------------------------------------------------------
\* C25: the autosave timer is pending only while the document is dirty: every
\* edit leaves it pending, every step that clears the dirty flag leaves none
\* pending, and it never fires for a clean document.
C25_AutosaveTimerOnlyWhileDirty ==
  /\ [](autoSaveTimer => isDirty)
  /\ [][/\ \A c \in Contents : Edit(c) => (isDirty' /\ autoSaveTimer')
        /\ (isDirty /\ ~isDirty') => ~autoSaveTimer'
        /\ AutoSaveFire => isDirty]_vars

\* The user chose to reload the version on disk over an edited buffer in an
\* editable view: the document is clean and no autosave is pending.
C25_Witness ==
  /\ lastStep = "reload"
  /\ viewMode \in {"source", "split"}
  /\ ~isDirty /\ ~autoSaveTimer

\* ------------------------------------------------------------------------
\* What a scan highlights
\* ------------------------------------------------------------------------
\* Case-insensitive equality of two texts of the same length, character by
\* character.
SameIgnoringCase(s, t) ==
  /\ Len(s) = Len(t)
  /\ \A i \in 1..Len(s) : LowerChar(s[i]) = LowerChar(t[i])

\* The query occurs in the text at position i (counted from 0).
OccursAt(text, query, i) ==
  /\ i + Len(query) <= Len(text)
  /\ SameIgnoringCase(SubSeq(text, i + 1, i + Len(query)), query)

\* The pieces of a text, from position `from` on, when the occurrences of the
\* query are taken left to right without overlap: text outside the
\* occurrences (mark FALSE) and the occurrences themselves (mark TRUE).
RECURSIVE Occurrences(_, _, _)
Occurrences(text, query, from) ==
  LET at == {i \in from..(Len(text) - 1) : OccursAt(text, query, i)}
  IN IF at = {}
     THEN IF from < Len(text) THEN <<[mark |-> FALSE, text |-> SubSeq(text, from + 1, Len(text))]>>
          ELSE <<>>
     ELSE LET i == CHOOSE j \in at : \A k \in at : j <= k
          IN (IF i > from THEN <<[mark |-> FALSE, text |-> SubSeq(text, from + 1, i)]>> ELSE <<>>)
             \o <<[mark |-> TRUE, text |-> SubSeq(text, i + 1, i + Len(query))]>>
             \o Occurrences(text, query, i + Len(query))

\* The child nodes of a paragraph without the identity of the marks.
Pieces(frags) == [i \in DOMAIN frags |-> [mark |-> frags[i].mark, text |-> frags[i].text]]

\* The first search of a document has scanned all of it and found something.
FirstScanDone == searchSeq = 1 /\ rafQueue = <<>> /\ searchMatches # <<>> /\ searchQuery # <<>>

\* C28: after a scan the markers of every text segment are the
\* case-insensitive occurrences of the query taken left to right without
\* overlap, each marker wraps the text of its occurrence and the match list
\* is the markers in document order.
C28_MarkersAreTheOccurrences ==
  FirstScanDone =>
    /\ \A p \in DOMAIN contentDom :
         Pieces(contentDom[p].frags) = Occurrences(searchOriginal[p], searchQuery, 0)
    /\ searchMatches = DomMarks(contentDom)

\* ------------------------------------------------------------------------
\* Search and re-rendering
\* ------------------------------------------------------------------------
\* Nothing of the search is scheduled: no debounce timer, idle callback or
\* chunk of a scan.
SearchQuiet == searchDebounceTimer = <<>> /\ searchIdle = <<>> /\ rafQueue = <<>>

\* The bar is open on a query of two or more characters that was scanned
\* once and never changed, in a document of characters whose lower case has
\* one code unit.
QueryActive ==
  /\ ~searchBarHidden
  /\ Len(searchInputValue) >= 2
  /\ searchSeq = 1 /\ searchQuery = searchInputValue
  /\ \A p \in DOMAIN searchOriginal : \A i \in DOMAIN searchOriginal[p] :
       searchOriginal[p][i] # DottedI

\* C29: with an active query and nothing of the search left to run, also
\* after a re-render, the markers are the matches of the query in the
\* displayed content and the match list is exactly these markers: no entry
\* of it is a mark of replaced content.
C29_IndexRebuiltOnRender ==
  (QueryActive /\ SearchQuiet) =>
    /\ \A p \in DOMAIN contentDom :
         Pieces(contentDom[p].frags) = Occurrences(searchOriginal[p], searchInputValue, 0)
    /\ searchMatches = DomMarks(contentDom)

\* ------------------------------------------------------------------------
\* A diagram that fails
\* ------------------------------------------------------------------------
\* The step is the settling of the awaited diagram request by a rejection.
DiagramRejected == \E outcome \in Rejections : DiagramSettled(outcome)

\* C30: a rejected diagram request puts an error block with the message and
\* the source into the .mermaid element of that diagram and changes no other
\* container; the next diagram of the document, if there is one, is then
\* requested; the step leaves the text, the compiled HTML, the view mode and
\* the dirty flag as they are; and while a request is awaited the view can
\* be toggled and an open editor edited.
C30_RejectedDiagramIsLocal ==
  /\ [][DiagramRejected =>
          LET at == diagramLoop.at IN
          /\ diagramEls'[at].mermaid[1] = "mermaid-error"
          /\ diagramEls'[at].mermaid[3] = diagramEls[at].source
          /\ diagramEls'[at].source = diagramEls[at].source
          /\ \A j \in DOMAIN diagramEls : j # at => diagramEls'[j] = diagramEls[j]
          /\ at < Len(diagramEls) => diagramLoop' = [at |-> at + 1, awaiting |-> TRUE]
          /\ UNCHANGED <<currentRaw, currentHtml, viewMode, isDirty, editor, shown>>]_vars
  /\ []((diagramLoop.awaiting /\ budget.user > 0 /\ mainWindow) =>
          /\ currentRaw # "" => ENABLED ToggleViewSource
          /\ editor # NoEditor => ENABLED (\E c \in Contents : Edit(c)))

\* The first diagram was rejected and shows its error, the second was
\* rendered, and the user switched to the source view in between.
C30_Witness ==
  /\ Len(diagramEls) = 2
  /\ diagramEls[1].mermaid # <<>> /\ diagramEls[1].mermaid[1] = "mermaid-error"
  /\ Len(diagramEls[1].mermaid) = 3
  /\ diagramEls[2].mermaid = <<"svg", diagramEls[2].source>>
  /\ viewMode = "source"

\* ------------------------------------------------------------------------
\* The live preview of the split editor
\* ------------------------------------------------------------------------
\* The recompilation the live split editor asked for last returns, and no
\* later edit is waiting for its timer: the user has stopped editing.
LastPreviewDone ==
  /\ ResumeParsed
  /\ Head(awaiting).k = "prev"
  /\ \A i \in 2..Len(awaiting) : awaiting[i].k # "prev"
  /\ ~previewDebounce

\* C31: in split view an edit (re)arms the one preview timer and changes
\* neither the text of the document nor the preview; when the timer fires the
\* text of the document becomes the buffer and the buffer is what is sent to
\* be compiled; and when the last recompilation returns with no edit pending
\* the text of the document is the buffer and the preview and the compiled
\* HTML are compile(buffer).
C31_SplitPreviewFollowsBuffer ==
  /\ [][\A c \in Contents :
          (Edit(c) /\ viewMode = "split") =>
             /\ previewDebounce' /\ stalePreviews' = stalePreviews
             /\ UNCHANGED <<currentRaw, currentHtml, shown>>]_vars
  /\ [][PreviewFire =>
          /\ currentRaw' = editor
          /\ awaiting'[Len(awaiting')] = Await("prev", editor)]_vars
  /\ [][LastPreviewDone =>
          /\ currentRaw' = editor'
          /\ shown' = parseMarkdown(editor')
          /\ currentHtml' = shown']_vars

\* ------------------------------------------------------------------------
\* Scroll synchronisation of the split view (src/renderer/renderer.js,
\* setupSyncScroll)
\* ------------------------------------------------------------------------
MaxScrollable == 3

\* scrollHeight - clientHeight of a pane: 0 when the content fits.
Extents == 0..MaxScrollable

\* element.scrollTop = num / den: the pane ends on a whole pixel next to the
\* assigned value (which way the platform snaps is not the program's choice).
Snapped(num, den) == {num \div den, (num + den - 1) \div den}

\* The user drags or wheels a pane to another offset.
UserScroll(pane, top) ==
  /\ UNCHANGED scrollRest
  /\ viewMode = "split"
  /\ IF pane = "source"
       THEN /\ top \in 0..sourcePane.scrollable /\ top # sourcePane.scrollTop
            /\ sourcePane' = [sourcePane EXCEPT !.scrollTop = top]
            /\ UNCHANGED previewPane
       ELSE /\ top \in 0..previewPane.scrollable /\ top # previewPane.scrollTop
            /\ previewPane' = [previewPane EXCEPT !.scrollTop = top]
            /\ UNCHANGED sourcePane
  /\ scrollEvents' = scrollEvents \cup {pane}
  /\ echoes' = echoes \ {pane}
  /\ UNCHANGED <<syncScrollEnabled, isSyncingFromSource, isSyncingFromPreview,
                 animationFrames>>

\* The contents are laid out again (an edit, a recompiled preview, a resized
\* window): the extents change and an offset beyond the new extent is clamped.
Layout(s, p) ==
  /\ UNCHANGED scrollRest
  /\ viewMode = "split"
  /\ <<s, p>> # <<sourcePane.scrollable, previewPane.scrollable>>
  /\ sourcePane' = Pane(IF sourcePane.scrollTop > s THEN s ELSE sourcePane.scrollTop, s)
  /\ previewPane' = Pane(IF previewPane.scrollTop > p THEN p ELSE previewPane.scrollTop, p)
  /\ scrollEvents' = scrollEvents
       \cup (IF sourcePane.scrollTop > s THEN {"source"} ELSE {})
       \cup (IF previewPane.scrollTop > p THEN {"preview"} ELSE {})
  /\ echoes' = echoes
       \ ((IF sourcePane.scrollTop > s THEN {"source"} ELSE {})
          \cup (IF previewPane.scrollTop > p THEN {"preview"} ELSE {}))
  /\ UNCHANGED <<syncScrollEnabled, isSyncingFromSource, isSyncingFromPreview,
                 animationFrames>>

\* source.addEventListener('scroll', ...)
SourceScroll ==
  /\ UNCHANGED scrollRest
  /\ "source" \in scrollEvents
  /\ IF \/ ~syncScrollEnabled \/ isSyncingFromPreview
        \/ sourcePane.scrollable <= 0 \/ previewPane.scrollable <= 0
       THEN /\ scrollEvents' = scrollEvents \ {"source"}
            /\ echoes' = echoes \ {"source"}
            /\ UNCHANGED <<previewPane, isSyncingFromSource, animationFrames>>
       ELSE /\ isSyncingFromSource' = TRUE
            /\ \E t \in Snapped(sourcePane.scrollTop * previewPane.scrollable,
                                sourcePane.scrollable) :
                 /\ previewPane' = [previewPane EXCEPT !.scrollTop = t]
                 /\ scrollEvents' = (scrollEvents \ {"source"})
                      \cup (IF t # previewPane.scrollTop THEN {"preview"} ELSE {})
                 /\ echoes' = (echoes \ {"source"})
                      \cup (IF t # previewPane.scrollTop /\ "preview" \notin scrollEvents
                              THEN {"preview"} ELSE {})
            /\ animationFrames' = animationFrames \cup {"source"}
  /\ UNCHANGED <<syncScrollEnabled, sourcePane, isSyncingFromPreview>>

\* preview.addEventListener('scroll', ...)
PreviewScroll ==
  /\ UNCHANGED scrollRest
  /\ "preview" \in scrollEvents
  /\ IF \/ ~syncScrollEnabled \/ isSyncingFromSource
        \/ previewPane.scrollable <= 0 \/ sourcePane.scrollable <= 0
       THEN /\ scrollEvents' = scrollEvents \ {"preview"}
            /\ echoes' = echoes \ {"preview"}
            /\ UNCHANGED <<sourcePane, isSyncingFromPreview, animationFrames>>
       ELSE /\ isSyncingFromPreview' = TRUE
            /\ \E t \in Snapped(previewPane.scrollTop * sourcePane.scrollable,
                                previewPane.scrollable) :
                 /\ sourcePane' = [sourcePane EXCEPT !.scrollTop = t]
                 /\ scrollEvents' = (scrollEvents \ {"preview"})
                      \cup (IF t # sourcePane.scrollTop THEN {"source"} ELSE {})
                 /\ echoes' = (echoes \ {"preview"})
                      \cup (IF t # sourcePane.scrollTop /\ "source" \notin scrollEvents
                              THEN {"source"} ELSE {})
            /\ animationFrames' = animationFrames \cup {"preview"}
  /\ UNCHANGED <<syncScrollEnabled, previewPane, isSyncingFromSource>>

\* requestAnimationFrame(() => { isSyncingFromSource = false; }) and its twin.
AnimationFrame(pane) ==
  /\ UNCHANGED scrollRest
  /\ pane \in animationFrames
  /\ animationFrames' = animationFrames \ {pane}
  /\ isSyncingFromSource' = IF pane = "source" THEN FALSE ELSE isSyncingFromSource
  /\ isSyncingFromPreview' = IF pane = "preview" THEN FALSE ELSE isSyncingFromPreview
  /\ UNCHANGED <<syncScrollEnabled, sourcePane, previewPane, scrollEvents, echoes>>

\* View > Sync Scroll
ToggleSyncScroll ==
  /\ UNCHANGED scrollRest
  /\ syncScrollEnabled' = ~syncScrollEnabled
  /\ UNCHANGED <<sourcePane, previewPane, isSyncingFromSource, isSyncingFromPreview,
                 scrollEvents, echoes, animationFrames>>

\* The split view is open on a document. The program fixes no order between
\* the dispatch of a pending scroll event and a pending animation frame
\* callback: either may run first.
NextScroll ==
  \/ \E ch \in Choices : OpenFile("/a.md", ch)
  \/ \E i \in 1..MaxInFlight : OpenStat(i)
  \/ \E i \in 1..MaxInFlight : OpenRead(i)
  \/ RecvFileOpened
  \/ ToggleSplitView
  \/ \E pane \in {"source", "preview"}, top \in Extents : UserScroll(pane, top)
  \/ \E s \in Extents, p \in Extents : Layout(s, p)
  \/ SourceScroll
  \/ PreviewScroll
  \/ \E pane \in {"source", "preview"} : AnimationFrame(pane)
  \/ ToggleSyncScroll

InitScroll == InitWith(2, 0) /\ AuxInit

SpecScroll == InitScroll /\ [][NextScroll]_vars


\* The handler of `pane` runs past its guards and assigns the other pane.
Synced(pane) ==
  /\ IF pane = "source" THEN SourceScroll ELSE PreviewScroll
  /\ animationFrames' # animationFrames \/ pane \in animationFrames
  /\ IF pane = "source" THEN isSyncingFromSource' ELSE isSyncingFromPreview'
  /\ syncScrollEnabled
  /\ IF pane = "source" THEN ~isSyncingFromPreview ELSE ~isSyncingFromSource
  /\ sourcePane.scrollable > 0 /\ previewPane.scrollable > 0

\* C32: with sync enabled a scroll event on one pane puts the other pane at
\* the same proportion of its extent (to the pixel); the scroll event that
\* this assignment causes on the other pane does not move the pane the user
\* scrolled; and when either extent is <= 0 the handlers change no offset.
C32_ScrollSyncProportional ==
  /\ [][Synced("source") =>
          /\ previewPane'.scrollTop * sourcePane.scrollable
               - sourcePane.scrollTop * previewPane.scrollable < sourcePane.scrollable
          /\ sourcePane.scrollTop * previewPane.scrollable
               - previewPane'.scrollTop * sourcePane.scrollable < sourcePane.scrollable]_vars
  /\ [][Synced("preview") =>
          /\ sourcePane'.scrollTop * previewPane.scrollable
               - previewPane.scrollTop * sourcePane.scrollable < previewPane.scrollable
          /\ previewPane.scrollTop * sourcePane.scrollable
               - sourcePane'.scrollTop * previewPane.scrollable < previewPane.scrollable]_vars
  /\ [][((SourceScroll \/ PreviewScroll)
           /\ (sourcePane.scrollable <= 0 \/ previewPane.scrollable <= 0)) =>
          UNCHANGED <<sourcePane, previewPane>>]_vars
  /\ [][(PreviewScroll /\ "preview" \in echoes) => UNCHANGED sourcePane]_vars
  /\ [][(SourceScroll /\ "source" \in echoes) => UNCHANGED previewPane]_vars


\* ------------------------------------------------------------------------
\* Reconciliation reads and the open document
\* ------------------------------------------------------------------------
\* C33: the renderer applies a file-changed message (adopting it or raising a
\* conflict with it) only when its content was read from the file that is
\* the open document at that moment.
C33_FileChangedOfOpenDocument ==
  [][RecvFileChanged => Head(m2r).p = currentFilePath]_vars


\* ------------------------------------------------------------------------
\* The pending conflict and the dirty flag
\* ------------------------------------------------------------------------
\* C34: a save that makes the document clean (explicit save, autosave, save
\* before open, save and close: the save reply) leaves no conflict banner
\* visible, and 'Reload from disk' is never applied to a clean document.
C34_ConflictOnlyWhileDirty ==
  /\ [][(RecvSaveReply /\ ~isDirty') => ~BannerVisible']_vars
  /\ [][ConflictReload => isDirty]_vars


\* C35: opening a file discards the pending conflict of the previous
\* document: after onFileOpened no conflict banner is visible and no external
\* version is recorded for 'Reload from disk' to install.
C35_OpenDiscardsConflict ==
  [][RecvFileOpened =>
       /\ ~BannerVisible'
       /\ pendingExternalHtml' = Null
       /\ pendingExternalRaw' = Null]_vars


\* C36: while the conflict banner is visible the autosave timer does not
\* send the buffer to be written over the external version of the file.
C36_NoAutosaveDuringConflict ==
  [][(AutoSaveFire /\ BannerVisible) => UNCHANGED r2m]_vars


\* C37: the preview recompilation of a split editor that was discarded (its
\* timer still pending, or its parseMarkdown call still awaited, when the
\* view was rendered again) changes neither the text nor the compiled HTML of
\* the document.
C37_DiscardedPreviewHasNoEffect ==
  /\ [][\A c \in Contents :
          StalePreviewFire(c) => UNCHANGED <<currentRaw, currentHtml>>]_vars
  /\ [][(ResumeParsed /\ Head(awaiting).k = "prevStale") =>
          UNCHANGED <<currentRaw, currentHtml>>]_vars


\* ------------------------------------------------------------------------
\* Dispatch of diagram requests
\* ------------------------------------------------------------------------
\* C38: every request id is handed to the isolated context (renderDiagram)
\* at most once.
C38_DispatchedAtMostOnce ==
  \A i \in RequestIds : mermaidCalls[i] <= 1


\* ------------------------------------------------------------------------
\* The dirty flag and its copy in the main process
\* ------------------------------------------------------------------------
\* No open is between its prompt and the installation of the document.
NoOpenInProgress ==
  /\ opens = <<>>
  /\ \A i \in 1..Len(m2r) : m2r[i].t \notin {"file-opened", "drop-reply"}

\* C39: while the window is open, whenever no set-dirty message is on its way
\* to the main process (and no open is under way), the main process's copy of the dirty flag equals the
\* renderer's flag; in particular after an open that was answered with
\* "Don't Save" and then rejected or failed.
C39_DirtyMirrorAgrees ==
  (mainWindow /\ (\A i \in 1..Len(r2m) : r2m[i].t # "set-dirty") /\ NoOpenInProgress)
    => mIsDirty = isDirty


\* ------------------------------------------------------------------------
\* Find in document while the diagrams of a render are filled in
\* (src/renderer/renderer.js, renderMarkdown)
\* ------------------------------------------------------------------------
\* renderMarkdown(html) for a document with diagrams, up to its suspension in
\* `await renderMermaidDiagrams()`: the content is replaced and the first
\* diagram requested.
RenderMarkdownBegin(doc, codes) ==
  /\ searchBudget > 0
  /\ searchBudget' = searchBudget - 1
  /\ ~diagramLoop.awaiting
  /\ contentDom' = SetInnerHtml(contentDom, doc)
  /\ searchOriginal' = doc
  /\ diagramEls' = [i \in DOMAIN codes |-> DiagramContainer(codes[i])]
  /\ diagramLoop' = [at |-> 1, awaiting |-> TRUE]
  /\ UNCHANGED <<searchMatches, currentMarks, currentMatchIndex, searchCount, searchInputValue,
                 searchBarHidden, searchDebounceTimer, searchIdle, rafQueue, searchSeq,
                 searchQuery>>
  /\ UNCHANGED <<docState, mermaidVars, compileVars, svgVars, watchVars, scrollVars>>

\* The awaited diagram settles. The loop goes on to the next diagram; after
\* the last one renderMermaidDiagrams() returns and renderMarkdown resumes
\* with clearSearch().
RenderMarkdownResume(outcome) ==
  /\ diagramLoop.awaiting
  /\ diagramEls' = [diagramEls EXCEPT ![diagramLoop.at].mermaid =
                                         MermaidElAfter(diagramEls[diagramLoop.at], outcome)]
  /\ diagramLoop' = LoopAfter(diagramLoop.at, outcome, Len(diagramEls))
  /\ IF diagramLoop'.awaiting
       THEN UNCHANGED <<contentDom, searchMatches, currentMatchIndex, currentMarks, searchCount>>
       ELSE /\ contentDom' = clearSearch(contentDom)
            /\ searchMatches' = <<>>
            /\ currentMatchIndex' = -1
            /\ currentMarks' = {}
            /\ searchCount' = updateSearchCount(<<>>, -1, searchInputValue)
  /\ UNCHANGED <<searchInputValue, searchBarHidden, searchDebounceTimer, searchIdle, rafQueue,
                 searchSeq, searchQuery, searchOriginal, searchBudget>>
  /\ UNCHANGED <<docState, mermaidVars, compileVars, svgVars, watchVars, scrollVars>>

\* Find in document while a document with diagrams is rendered.
NextSearchDiagrams ==
  \/ NextSearch
  \/ \E doc \in Docs, codes \in DiagramDocs : RenderMarkdownBegin(doc, codes)
  \/ \E outcome \in DiagramOutcomes : RenderMarkdownResume(outcome)

InitSearchDiagrams == InitSearch
SpecSearchDiagrams == InitSearchDiagrams /\ [][NextSearchDiagrams]_vars

\* C40: when the diagram pass of a render completes, the markers that a
\* search put into the content displayed by that render, and its match list,
\* are left as they are.
C40_DiagramPassKeepsSearch ==
  [][\A outcome \in DiagramOutcomes :
       (RenderMarkdownResume(outcome) /\ DomMarks(contentDom) # <<>>) =>
          UNCHANGED <<contentDom, searchMatches>>]_vars

============================================================================
